---- MODULE Spec2Model ----
(***************************************************************************)
(* Model of the ForceGraph component                                       *)
(* (src/src/components/path-visualization-modes/force-graph.tsx).          *)
(*                                                                         *)
(* Titles are sequences of one-character strings, so that the string       *)
(* operations of the source (replace, toLowerCase, trim, includes and the  *)
(* "source|target" link key) are computed and not assumed.                 *)
(***************************************************************************)
EXTENDS Integers, Sequences, FiniteSets, TLC

(***************************************************************************)
(* Bounds of the model.                                                    *)
(***************************************************************************)
MaxPageId == 2
MaxPaths == 2
MaxPathLen == 2
MaxEvents == 3
MaxPointerEvents == 5
MaxGestureEvents == 4
CoolTicks == 1
MaxFrames == 1

(***************************************************************************)
(* Values of the source.                                                   *)
(***************************************************************************)
\* null / undefined where a title is expected (startPage, endPage).
NullTitle == <<"null">>
\* pageInfo[id] when the lookup has no entry for id.
MissingEntry == <<"undefined">>
\* Page ids are MediaWiki page ids, which are positive; 0 is JavaScript-falsy.
PageIds == 1..MaxPageId
\* The titles the metadata lookup may give (MediaWiki titles never hold "|").
TitleSet == { <<"A">>, <<"A", "A">>, <<"A", "_", "b">> }
PageInfoMaps == [PageIds -> TitleSet \cup {MissingEntry}]

RECURSIVE SeqsUpTo(_, _)
SeqsUpTo(S, n) ==
  IF n = 0 THEN { << >> }
  ELSE LET shorter == SeqsUpTo(S, n - 1)
       IN  shorter \cup { Append(s, e) : s \in { t \in shorter : Len(t) = n - 1 }, e \in S }

\* A path never visits a page twice: the backend returns shortest paths.
IsSimplePath(path) == \A i, j \in 1..Len(path) : path[i] = path[j] => i = j
PathInputs == { path \in SeqsUpTo(PageIds, MaxPathLen) : IsSimplePath(path) }
PathSetInputs == SeqsUpTo(PathInputs, MaxPaths)

(***************************************************************************)
(* String helpers, as the JavaScript string methods compute them.          *)
(***************************************************************************)
\* String.prototype.replace(/_/g, " ")
ReplaceUnderscores(s) == [i \in 1..Len(s) |-> IF s[i] = "_" THEN " " ELSE s[i]]

LowerChar(c) == IF c = "A" THEN "a" ELSE IF c = "B" THEN "b" ELSE c
\* String.prototype.toLowerCase()
ToLowerCase(s) == [i \in 1..Len(s) |-> LowerChar(s[i])]

RECURSIVE TrimStart(_)
TrimStart(s) == IF Len(s) > 0 /\ s[1] = " " THEN TrimStart(Tail(s)) ELSE s
RECURSIVE TrimEnd(_)
TrimEnd(s) == IF Len(s) > 0 /\ s[Len(s)] = " " THEN TrimEnd(SubSeq(s, 1, Len(s) - 1)) ELSE s
\* String.prototype.trim()
Trim(s) == TrimEnd(TrimStart(s))

\* String.prototype.includes(sub)
Includes(s, sub) ==
  \E i \in 1..(Len(s) + 1) :
    /\ i + Len(sub) - 1 <= Len(s)
    /\ SubSeq(s, i, i + Len(sub) - 1) = sub

(***************************************************************************)
(* Render-time values of ForceGraph.                                       *)
(***************************************************************************)
\* paths.length > 0 ? paths[0][0] : null   (0 stands for null / undefined)
StartPageId(p) == IF Len(p) > 0 /\ Len(p[1]) > 0 THEN p[1][1] ELSE 0
\* paths.length > 0 ? paths[0][paths[0].length - 1] : null
EndPageId(p) == IF Len(p) > 0 /\ Len(p[1]) > 0 THEN p[1][Len(p[1])] ELSE 0

\* id ? (pageInfo[id]?.title ?? null) : null
TitleOrNull(id, pi) ==
  IF id = 0 THEN NullTitle
  ELSE IF pi[id] = MissingEntry THEN NullTitle ELSE pi[id]

StartPage(p, pi) == TitleOrNull(StartPageId(p), pi)
EndPage(p, pi) == TitleOrNull(EndPageId(p), pi)

(***************************************************************************)
(* The graph-building effect.                                              *)
(***************************************************************************)
\* The key without its separator: "A" + "AA" and "AA" + "A" then collide.
LinkKeyNoSeparator(source, target) == source \o target

\* `${source}|${target}`
LinkKey(source, target) == source \o <<"|">> \o target

HasNode(nodes, page) == \E k \in 1..Len(nodes) : nodes[k].id = page

\* The node flagged by its position in whichever path shows it first.
NewNodeByPosition(page, pathIndex, index, sp, ep) ==
  [ id |-> page,
    name |-> ReplaceUnderscores(page),
    isStart |-> (index = 0),
    isEnd |-> (page = ep),
    group |-> pathIndex,
    depth |-> index,
    isSearchMatch |-> FALSE,
    isSearchConnected |-> FALSE ]

\* nodesMap.set(page, {...}) on first sight of page; index is zero-based.
NewNode(page, pathIndex, index, sp, ep) ==
  [ id |-> page,
    name |-> ReplaceUnderscores(page),
    isStart |-> (page = sp),
    isEnd |-> (page = ep),
    group |-> pathIndex,
    depth |-> index,
    isSearchMatch |-> FALSE,
    isSearchConnected |-> FALSE ]

\* path.forEach((pageId, index) => ...): acc is [threw, nodes, keys, links];
\* pageInfo[pageId].title throws a TypeError when the entry is missing.
RECURSIVE AddPathNodes(_, _, _, _, _, _, _)
AddPathNodes(acc, path, i, pathIndex, pi, sp, ep) ==
  IF acc.threw \/ i > Len(path) THEN acc
  ELSE IF pi[path[i]] = MissingEntry THEN [acc EXCEPT !.threw = TRUE]
  ELSE LET page == pi[path[i]]
           next == IF HasNode(acc.nodes, page) THEN acc
                   ELSE [acc EXCEPT !.nodes =
                           Append(@, NewNode(page, pathIndex, i - 1, sp, ep))]
       IN  AddPathNodes(next, path, i + 1, pathIndex, pi, sp, ep)

\* for (let i = 0; i < path.length - 1; i++) { ... links.push(...) }
RECURSIVE AddPathLinks(_, _, _, _)
AddPathLinks(acc, path, i, pi) ==
  IF acc.threw \/ i > Len(path) - 1 THEN acc
  ELSE IF pi[path[i]] = MissingEntry \/ pi[path[i + 1]] = MissingEntry
       THEN [acc EXCEPT !.threw = TRUE]
  ELSE LET source == pi[path[i]]
           target == pi[path[i + 1]]
           linkKey == LinkKey(source, target)
           next == IF linkKey \in acc.keys THEN acc
                   ELSE [acc EXCEPT
                           !.keys = @ \cup {linkKey},
                           !.links = Append(@,
                             [ source |-> source,
                               target |-> target,
                               fromPage |-> ReplaceUnderscores(source),
                               toPage |-> ReplaceUnderscores(target),
                               isSearchHighlighted |-> FALSE ])]
       IN  AddPathLinks(next, path, i + 1, pi)

\* paths.forEach((path, pathIndex) => { nodes of path; links of path })
RECURSIVE AddPaths(_, _, _, _, _, _)
AddPaths(acc, p, k, pi, sp, ep) ==
  IF acc.threw \/ k > Len(p) THEN acc
  ELSE AddPaths(
         AddPathLinks(AddPathNodes(acc, p[k], 1, k - 1, pi, sp, ep), p[k], 1, pi),
         p, k + 1, pi, sp, ep)

\* The flags when only an edge out of a match connects a node to it.
SearchFlagsForwardOnly(nodes, links, term) ==
  LET searchLower == Trim(ToLowerCase(term))
      IsMatch(n) == Includes(ToLowerCase(n.name), searchLower)
      searchMatchNodes == { nodes[k].id : k \in { j \in 1..Len(nodes) : IsMatch(nodes[j]) } }
      Connected(id) ==
        \E j \in 1..Len(links) :
          links[j].source \in searchMatchNodes /\ links[j].target = id
  IN  IF searchLower # << >>
      THEN [ nodes |-> [k \in 1..Len(nodes) |->
                 [nodes[k] EXCEPT
                    !.isSearchMatch = IsMatch(nodes[k]),
                    !.isSearchConnected = (~IsMatch(nodes[k]) /\ Connected(nodes[k].id))]],
             links |-> [j \in 1..Len(links) |->
                 [links[j] EXCEPT !.isSearchHighlighted =
                    (links[j].source \in searchMatchNodes
                       \/ links[j].target \in searchMatchNodes)]] ]
      ELSE [ nodes |-> [k \in 1..Len(nodes) |->
                 [nodes[k] EXCEPT !.isSearchMatch = FALSE, !.isSearchConnected = FALSE]],
             links |-> [j \in 1..Len(links) |->
                 [links[j] EXCEPT !.isSearchHighlighted = FALSE]] ]

\* The flags when the emptiness of searchLower is never tested.
SearchFlagsNoGuard(nodes, links, term) ==
  LET searchLower == Trim(ToLowerCase(term))
      IsMatch(n) == Includes(ToLowerCase(n.name), searchLower)
      searchMatchNodes == { nodes[k].id : k \in { j \in 1..Len(nodes) : IsMatch(nodes[j]) } }
      Connected(id) ==
        \E j \in 1..Len(links) :
          \/ (links[j].source \in searchMatchNodes /\ links[j].target = id)
          \/ (links[j].target \in searchMatchNodes /\ links[j].source = id)
  IN  IF TRUE
      THEN [ nodes |-> [k \in 1..Len(nodes) |->
                 [nodes[k] EXCEPT
                    !.isSearchMatch = IsMatch(nodes[k]),
                    !.isSearchConnected = (~IsMatch(nodes[k]) /\ Connected(nodes[k].id))]],
             links |-> [j \in 1..Len(links) |->
                 [links[j] EXCEPT !.isSearchHighlighted =
                    (links[j].source \in searchMatchNodes
                       \/ links[j].target \in searchMatchNodes)]] ]
      ELSE [ nodes |-> [k \in 1..Len(nodes) |->
                 [nodes[k] EXCEPT !.isSearchMatch = FALSE, !.isSearchConnected = FALSE]],
             links |-> [j \in 1..Len(links) |->
                 [links[j] EXCEPT !.isSearchHighlighted = FALSE]] ]

\* The search flags (searchLower non-empty) or their clearing (empty).
\* isSearchConnected is left undefined on matching nodes; undefined is falsy in
\* every use and is modelled as FALSE.
SearchFlags(nodes, links, term) ==
  LET searchLower == Trim(ToLowerCase(term))
      IsMatch(n) == Includes(ToLowerCase(n.name), searchLower)
      searchMatchNodes == { nodes[k].id : k \in { j \in 1..Len(nodes) : IsMatch(nodes[j]) } }
      Connected(id) ==
        \E j \in 1..Len(links) :
          \/ (links[j].source \in searchMatchNodes /\ links[j].target = id)
          \/ (links[j].target \in searchMatchNodes /\ links[j].source = id)
  IN  IF searchLower # << >>
      THEN [ nodes |-> [k \in 1..Len(nodes) |->
                 [nodes[k] EXCEPT
                    !.isSearchMatch = IsMatch(nodes[k]),
                    !.isSearchConnected = (~IsMatch(nodes[k]) /\ Connected(nodes[k].id))]],
             links |-> [j \in 1..Len(links) |->
                 [links[j] EXCEPT !.isSearchHighlighted =
                    (links[j].source \in searchMatchNodes
                       \/ links[j].target \in searchMatchNodes)]] ]
      ELSE [ nodes |-> [k \in 1..Len(nodes) |->
                 [nodes[k] EXCEPT !.isSearchMatch = FALSE, !.isSearchConnected = FALSE]],
             links |-> [j \in 1..Len(links) |->
                 [links[j] EXCEPT !.isSearchHighlighted = FALSE]] ]

\* The body of the effect after its "paths.length === 0" guard: the value
\* handed to setGraphData, or threw = TRUE when the body ends in a TypeError.
BuildGraph(p, pi, term) ==
  LET raw == AddPaths([threw |-> FALSE, nodes |-> << >>, keys |-> {}, links |-> << >>],
                      p, 1, pi, StartPage(p, pi), EndPage(p, pi))
      flagged == SearchFlags(raw.nodes, raw.links, term)
  IN  IF raw.threw THEN [threw |-> TRUE, nodes |-> << >>, links |-> << >>]
      ELSE [threw |-> FALSE, nodes |-> flagged.nodes, links |-> flagged.links]

(***************************************************************************)
(* Program constants.                                                      *)
(***************************************************************************)
InitialWidth == 800
InitialHeight == 500
FullscreenExitHeight == 500
DragThreshold == 5
RaisedAlphaTarget == 3

(***************************************************************************)
(* The inputs of the mounted view: what the surrounding UI and the browser *)
(* hand to it.                                                             *)
(***************************************************************************)
ViewPathSets ==
  { << >>, << <<1, 2>> >>, << <<2, 1>> >>, << <<1, 2>>, <<2, 1>> >> }
CompleteInfo == [i \in PageIds |-> IF i = 1 THEN <<"A">> ELSE <<"A", "_", "b">>]
PartialInfo == [i \in PageIds |-> IF i = 1 THEN <<"A">> ELSE MissingEntry]
ViewPageInfos == { CompleteInfo, PartialInfo }
SearchTerms == { << >>, <<"a", " ", "b">> }
ContainerRects ==
  { [width |-> InitialWidth, height |-> InitialHeight],
    [width |-> 1000, height |-> 600] }
PointerDistances == { DragThreshold, DragThreshold + 1 }

VARIABLES
  phase,              \* "new", "mounted", "unmounted", "crashed"
  paths, pageInfo, searchTerm,                 \* props
  graphData, dimensions, showAllTitles,        \* useState
  pendGraph, pendDims,                         \* queued state updates
  simulation,         \* simulationRef.current: the d3 force simulation
  closure,            \* what the last layout/render effect run captured
  transition,         \* the camera transition started by zoomToFit
  gesture,            \* the d3-drag / d3-zoom mouse gesture in progress
  initialPositions,   \* initialPositionsRef.current: the ids with a stored lane position
  prevStructuralData, prevDimensions,          \* prevStructuralDataRef, prevDimensionsRef
  phys,               \* per node object of graphData: where it is, whether fx/fy is set
  fsListener,         \* the document "fullscreenchange" listener is registered
  observing,          \* the ResizeObserver observes the container
  fullscreen,         \* !!document.fullscreenElement
  evt,                \* what the last step did
  budget,             \* environment events so far
  limit,              \* how many environment events a behaviour may hold
  hovered,            \* hoveredNode / hoveredLink (useState), as indices into graphData
  calc                \* the input and the result of a function applied on its own

vars ==
  << phase, paths, pageInfo, searchTerm, graphData, dimensions, showAllTitles,
     pendGraph, pendDims, simulation, closure, transition, gesture, initialPositions,
     prevStructuralData, prevDimensions, phys, fsListener, observing, fullscreen,
     evt, budget, limit, hovered, calc >>

\* The variables of the mounted view.
viewVars ==
  << phase, paths, pageInfo, searchTerm, graphData, dimensions, showAllTitles,
     pendGraph, pendDims, simulation, closure, transition, gesture, initialPositions,
     prevStructuralData, prevDimensions, phys, fsListener, observing, fullscreen,
     evt, budget, limit, hovered >>

\* useState<Node | null>(null), useState<Link | null>(null): 0 stands for null;
\* objs tells whether the objects held are those of the arrays of graphData.
NoHover == [node |-> 0, link |-> 0, objs |-> TRUE]
NoCalc == [fn |-> "none"]

\* useState({ nodes: [], links: [] }); src is the path set the arrays were built from.
EmptyGraph == [nodes |-> << >>, links |-> << >>, src |-> << >>]
NoPlace == [kind |-> "empty", idx |-> 0]
NoGesture ==
  [kind |-> "none", node |-> 0, moved |-> FALSE, live |-> FALSE, objs |-> FALSE,
   src |-> << >>, place |-> NoPlace]
NoEvt ==
  [ op |-> "none", layout |-> FALSE, fit |-> FALSE, draw |-> FALSE, used |-> << >>,
    simNew |-> FALSE, rebuilt |-> FALSE, moved |-> FALSE, same |-> FALSE,
    threw |-> FALSE, click |-> FALSE, resolved |-> "none", target |-> NullTitle,
    nav |-> NullTitle ]

StructuralData(gd, p) ==
  [nodeCount |-> Len(gd.nodes), linkCount |-> Len(gd.links), pathsLength |-> Len(p)]

\* The state of a component instance after its first render, before its effects.
FreshComponent ==
  /\ phase = "new"
  /\ graphData = EmptyGraph
  /\ dimensions = [width |-> InitialWidth, height |-> InitialHeight]
  /\ showAllTitles = TRUE
  /\ pendGraph = << >>
  /\ pendDims = << >>
  /\ simulation = [running |-> FALSE, alphaTarget |-> 0, cool |-> 0]
  /\ closure = [exists |-> FALSE, registered |-> FALSE, src |-> << >>, dragMoved |-> FALSE,
                activeHoverNode |-> 0, activeHoverLink |-> 0]
  /\ transition = [frames |-> 0, src |-> << >>]
  /\ gesture = NoGesture
  /\ initialPositions = {}
  /\ prevStructuralData = [nodeCount |-> 0, linkCount |-> 0, pathsLength |-> 0]
  /\ prevDimensions = [width |-> InitialWidth, height |-> InitialHeight]
  /\ phys = << >>
  /\ fsListener = FALSE
  /\ observing = FALSE
  /\ fullscreen = FALSE
  /\ evt = NoEvt
  /\ budget = 0
  /\ hovered = NoHover

(***************************************************************************)
(* One render and commit of ForceGraph: the queued state updates are       *)
(* applied, and every effect whose dependencies changed runs its cleanup   *)
(* and then its body, in the order of the source.                          *)
(*   op       the step that causes the render                              *)
(*   np, npi  the paths and pageInfo props of this render                  *)
(*   nterm    the searchTerm prop; nshow: showAllTitles                    *)
(*   themeNew useTheme() gave another theme                                *)
(*   newProps the parent passed new paths / pageInfo objects               *)
(***************************************************************************)
\* The fit decided without the previous-value refs: whenever there are nodes.
NeedsFitWheneverDrawn(prevData, curData, prevDims, dims) == curData.nodeCount > 0

\* hasStructuralChanges || dimensionsChanged
NeedsFit(prevData, curData, prevDims, dims) ==
  prevData # curData \/ prevDims.width # dims.width \/ prevDims.height # dims.height

\* The dependency test of the graph-building effect:
\* [paths, startPage, endPage, searchTerm, pageInfo]
BuildDepsChanged(newProps, np, npi, nterm) ==
  \/ newProps
  \/ StartPage(np, npi) # StartPage(paths, pageInfo)
  \/ EndPage(np, npi) # EndPage(paths, pageInfo)
  \/ nterm # searchTerm

\* The dependency test of the layout/render effect:
\* [graphData, dimensions, showAllTitles, searchTerm, paths.length, theme]
LayoutDepsChanged(graphChanged, dimsChanged, np, nterm, nshow, themeNew) ==
  \/ graphChanged
  \/ dimsChanged
  \/ nshow # showAllTitles
  \/ nterm # searchTerm
  \/ Len(np) # Len(paths)
  \/ themeNew

Commit(op, np, npi, nterm, nshow, themeNew, newProps) ==
  LET mounting == phase = "new"
      graphChanged == pendGraph # << >>
      dimsChanged == pendDims # << >>
      gd == IF graphChanged THEN pendGraph[1] ELSE graphData
      dims == IF dimsChanged THEN pendDims[1] ELSE dimensions
      \* fresh node objects carry no x, y, fx, fy
      physIn == IF graphChanged
                THEN [k \in 1..Len(gd.nodes) |-> [at |-> "unset", pinned |-> FALSE]]
                ELSE phys
      \* --- the graph-building effect
      run1 == mounting \/ BuildDepsChanged(newProps, np, npi, nterm)
      built == BuildGraph(np, npi, nterm)
      builds == run1 /\ Len(np) # 0
      threw == builds /\ built.threw
      \* --- the layout/render effect
      run3 == mounting \/ LayoutDepsChanged(graphChanged, dimsChanged, np, nterm, nshow, themeNew)
      cleanup == run3 /\ closure.registered
      passes == run3 /\ Len(gd.nodes) # 0
      curData == StructuralData(gd, np)
      fit == passes /\ NeedsFit(prevStructuralData, curData, prevDimensions, dims)
  IN  /\ phase' = IF threw THEN "crashed" ELSE "mounted"
      /\ paths' = np
      /\ pageInfo' = npi
      /\ searchTerm' = nterm
      /\ showAllTitles' = nshow
      /\ graphData' = gd
      /\ dimensions' = dims
      /\ pendDims' = << >>
      /\ pendGraph' = IF builds /\ ~threw
                      THEN << [nodes |-> built.nodes, links |-> built.links, src |-> np] >>
                      ELSE << >>
      /\ simulation' =
           IF threw THEN [simulation EXCEPT !.running = FALSE]
           ELSE IF passes THEN [running |-> TRUE, alphaTarget |-> 0, cool |-> CoolTicks]
           ELSE IF cleanup THEN [simulation EXCEPT !.running = FALSE]
           ELSE simulation
      /\ closure' =
           IF passes
           THEN [exists |-> TRUE, registered |-> ~threw, src |-> gd.src, dragMoved |-> FALSE,
                 activeHoverNode |-> 0, activeHoverLink |-> 0]
           ELSE IF cleanup \/ threw THEN [closure EXCEPT !.registered = FALSE]
           ELSE closure
      /\ transition' = IF fit THEN [frames |-> MaxFrames, src |-> gd.src] ELSE transition
      /\ gesture' = IF gesture.kind = "none" THEN gesture
                    ELSE [gesture EXCEPT
                            !.live = @ /\ ~cleanup /\ ~threw,
                            !.objs = @ /\ ~graphChanged]
      /\ initialPositions' =
           IF passes THEN { gd.nodes[k].id : k \in 1..Len(gd.nodes) } ELSE initialPositions
      /\ prevStructuralData' = IF passes THEN curData ELSE prevStructuralData
      /\ prevDimensions' = IF passes THEN dims ELSE prevDimensions
      /\ phys' = IF passes
                 THEN [k \in 1..Len(gd.nodes) |-> [at |-> "lane", pinned |-> physIn[k].pinned]]
                 ELSE physIn
      /\ fsListener' = IF threw THEN FALSE ELSE IF mounting THEN TRUE ELSE fsListener
      /\ observing' = IF mounting THEN TRUE ELSE observing
      /\ fullscreen' = fullscreen
      \* no effect touches hoveredNode / hoveredLink
      /\ hovered' = IF hovered.node = 0 /\ hovered.link = 0 THEN hovered
                    ELSE [hovered EXCEPT !.objs = @ /\ ~graphChanged]
      /\ calc' = calc
      /\ evt' = [NoEvt EXCEPT
                   !.op = op,
                   !.layout = passes,
                   !.fit = fit,
                   !.used = IF passes THEN << gd.src >> ELSE << >>,
                   !.simNew = passes /\ closure.exists,
                   !.rebuilt = graphChanged,
                   !.moved = passes /\ ~graphChanged
                               /\ \E k \in 1..Len(phys) : phys[k].at # "lane",
                   !.same = /\ closure.exists
                            /\ curData = StructuralData(graphData, paths)
                            /\ dims = dimensions,
                   !.threw = threw]

(***************************************************************************)
(* Steps of the mounted view.                                              *)
(***************************************************************************)
Spend == budget < limit /\ budget' = budget + 1 /\ limit' = limit

\* The first commit of the component: all three effects run.
Mount ==
  /\ phase = "new"
  /\ Commit("Mount", paths, pageInfo, searchTerm, showAllTitles, FALSE, FALSE)
  /\ UNCHANGED << budget, limit >>

\* React renders again for the state updates queued by setGraphData / setDimensions.
Rerender ==
  /\ phase = "mounted"
  /\ pendGraph # << >> \/ pendDims # << >>
  /\ Commit("Rerender", paths, pageInfo, searchTerm, showAllTitles, FALSE, FALSE)
  /\ UNCHANGED << budget, limit >>

\* The surrounding UI hands over the result of another search.
ReceiveProps(np, npi) ==
  /\ phase = "mounted"
  /\ np # paths
  /\ Spend
  /\ Commit("ReceiveProps", np, npi, searchTerm, showAllTitles, FALSE, TRUE)

\* The user edits the search box of the surrounding UI.
SetSearchTerm(term) ==
  /\ phase = "mounted"
  /\ term # searchTerm
  /\ Spend
  /\ Commit("SetSearchTerm", paths, pageInfo, term, showAllTitles, FALSE, FALSE)

\* toggleTitleVisibility: setShowAllTitles((v) => !v), rendered at once.
ToggleTitleVisibility ==
  /\ phase = "mounted"
  /\ Spend
  /\ Commit("ToggleTitleVisibility", paths, pageInfo, searchTerm, ~showAllTitles, FALSE, FALSE)

\* useTheme() gives another theme.
SetTheme ==
  /\ phase = "mounted"
  /\ Spend
  /\ Commit("SetTheme", paths, pageInfo, searchTerm, showAllTitles, TRUE, FALSE)

\* The ResizeObserver callback; it does nothing while the document is fullscreen.
\* After unmount setDimensions is a no-op.
ResizeObserved(rect) ==
  /\ observing
  /\ UNCHANGED << hovered, calc >>
  /\ phase \in {"mounted", "unmounted", "crashed"}
  /\ Spend
  /\ pendDims' = IF phase = "mounted" /\ ~fullscreen THEN << rect >> ELSE pendDims
  /\ evt' = [NoEvt EXCEPT !.op = "ResizeObserved"]
  /\ UNCHANGED << phase, paths, pageInfo, searchTerm, graphData, dimensions,
                  showAllTitles, pendGraph, simulation, closure, transition, gesture,
                  initialPositions, prevStructuralData, prevDimensions, phys,
                  fsListener, observing, fullscreen >>

\* The dimensions on exit as the container measures them.
ExitDimensionsMeasured(rect) == [width |-> rect.width, height |-> rect.height]

\* setDimensions({ width: rect.width, height: 500 })
ExitDimensions(rect) == [width |-> rect.width, height |-> FullscreenExitHeight]

\* handleFullscreenChange, called when the document enters or leaves fullscreen;
\* rect is containerRef.current.getBoundingClientRect().
FullscreenChange(rect) ==
  /\ fsListener
  /\ UNCHANGED << hovered, calc >>
  /\ phase = "mounted"
  /\ Spend
  /\ fullscreen' = ~fullscreen
  /\ pendDims' = IF fullscreen
                 THEN << ExitDimensions(rect) >>
                 ELSE << [width |-> rect.width, height |-> rect.height] >>
  /\ evt' = [NoEvt EXCEPT !.op = "FullscreenChange"]
  /\ UNCHANGED << phase, paths, pageInfo, searchTerm, graphData, dimensions,
                  showAllTitles, pendGraph, simulation, closure, transition, gesture,
                  initialPositions, prevStructuralData, prevDimensions, phys,
                  fsListener, observing >>

\* One tick of the running simulation: forces move the free nodes, a pinned node
\* sits at its fx/fy, alpha decays towards alphaTarget, and the "tick" listener
\* (drawGraph of the run that created the simulation) redraws. The link force
\* (rest length 3000) pushes every linked node off its lane coordinate.
HasLink(gd, id) ==
  \E j \in 1..Len(gd.links) : gd.links[j].source = id \/ gd.links[j].target = id

Tick ==
  /\ simulation.running
  /\ UNCHANGED << hovered, calc >>
  /\ simulation' =
       IF simulation.alphaTarget > 0 THEN [simulation EXCEPT !.cool = CoolTicks]
       ELSE IF simulation.cool <= 1 THEN [simulation EXCEPT !.cool = 0, !.running = FALSE]
       ELSE [simulation EXCEPT !.cool = @ - 1]
  /\ phys' = IF closure.registered
             THEN [k \in 1..Len(phys) |->
                     IF phys[k].pinned \/ HasLink(graphData, graphData.nodes[k].id)
                     THEN [phys[k] EXCEPT !.at = "off"]
                     ELSE phys[k]]
             ELSE phys
  /\ evt' = [NoEvt EXCEPT !.op = "Tick", !.draw = TRUE, !.used = << closure.src >>]
  /\ UNCHANGED << phase, paths, pageInfo, searchTerm, graphData, dimensions,
                  showAllTitles, pendGraph, pendDims, closure, transition, gesture,
                  initialPositions, prevStructuralData, prevDimensions,
                  fsListener, observing, fullscreen, budget, limit >>

\* One frame of the 400 ms camera transition of zoomToFit: zoom.transform emits
\* "zoom" on the zoom behaviour, whose listener is drawGraph of the run that
\* created the behaviour. Removing the canvas' ".zoom" listeners does not end it.
TransitionFrame ==
  /\ transition.frames > 0
  /\ UNCHANGED << hovered, calc >>
  /\ transition' = [transition EXCEPT !.frames = @ - 1]
  /\ evt' = [NoEvt EXCEPT !.op = "TransitionFrame", !.draw = TRUE,
                          !.used = << transition.src >>]
  /\ UNCHANGED << phase, paths, pageInfo, searchTerm, graphData, dimensions,
                  showAllTitles, pendGraph, pendDims, simulation, closure, gesture,
                  initialPositions, prevStructuralData, prevDimensions, phys,
                  fsListener, observing, fullscreen, budget, limit >>

(***************************************************************************)
(* Pointer input. A place is what the pointer position resolves to: the    *)
(* k-th node (its dot or its label), the j-th link, or neither.            *)
(***************************************************************************)
Places(gd) ==
  {NoPlace}
    \cup { [kind |-> "node", idx |-> k] : k \in 1..Len(gd.nodes) }
    \cup { [kind |-> "link", idx |-> j] : j \in 1..Len(gd.links) }

\* findSubjectNode: the index of the node found at the place, 0 for null.
FindSubjectNode(place, gd) ==
  IF place.kind = "node" /\ place.idx <= Len(gd.nodes) THEN place.idx ELSE 0

\* The link loop of handleClick and handlePointerMove: the index of foundLink,
\* 0 for null. A node's dot is the end of every link of the node, so the loop
\* finds the first of them there (the distance is 0, below the threshold).
FindLink(place, gd) ==
  IF place.kind = "link" /\ place.idx <= Len(gd.links) THEN place.idx
  ELSE IF place.kind = "node" /\ place.idx <= Len(gd.nodes)
  THEN LET incident == { j \in 1..Len(gd.links) :
                           /\ gd.links[j].source # gd.links[j].target
                           /\ \/ gd.links[j].source = gd.nodes[place.idx].id
                              \/ gd.links[j].target = gd.nodes[place.idx].id }
       IN  IF incident = {} THEN 0 ELSE CHOOSE j \in incident : \A i \in incident : j <= i
  ELSE 0

\* What the place resolves to for a handler: a node first, then a link.
Resolved(place, gd) ==
  IF FindSubjectNode(place, gd) # 0 THEN "node"
  ELSE IF FindLink(place, gd) # 0 THEN "link" ELSE "none"

\* The filter that lets every mousedown start a pan.
ZoomFilterAnywhere(type, place, gd) == type = "wheel" \/ type = "mousedown"

\* .filter((e) => e.type === "wheel" || (e.type === "mousedown" && !findSubjectNode(e)))
ZoomFilter(type, place, gd) ==
  type = "wheel" \/ (type = "mousedown" /\ FindSubjectNode(place, gd) = 0)

\* The link loop run whatever findSubjectNode gave.
HoverLinkAlways(subject, place, gd) == FindLink(place, gd)

\* let foundLink = null; if (!subject) { ...the link loop... }
HoverLink(subject, place, gd) == IF subject # 0 THEN 0 ELSE FindLink(place, gd)

\* The restore that leaves fx / fy alone.
ResetNodeKeepPin(p, stored) == IF stored THEN [p EXCEPT !.at = "lane"] ELSE p

\* if (initialPos) { node.x = ...; node.y = ...; node.fx = null; node.fy = null; }
ResetNode(p, stored) == IF stored THEN [at |-> "lane", pinned |-> FALSE] ELSE p

\* What handleClick opens: the title it navigates to, NullTitle for nothing.
HandleClick(dragMoved, place, gd) ==
  IF dragMoved THEN NullTitle
  ELSE IF FindSubjectNode(place, gd) # 0 THEN gd.nodes[FindSubjectNode(place, gd)].id
  ELSE IF FindLink(place, gd) # 0 THEN gd.links[FindLink(place, gd)].target
  ELSE NullTitle

\* mousedown on the canvas. The listener of d3-zoom was added first: when its
\* filter accepts the event it starts a pan and stops the propagation, so the
\* listener of d3-drag never sees the event; otherwise d3-drag starts a gesture
\* when its subject, findSubjectNode, gives a node.
MouseDown(place) ==
  /\ phase = "mounted"
  /\ UNCHANGED << hovered, calc >>
  /\ closure.registered
  /\ gesture.kind = "none"
  /\ Spend
  /\ LET k == FindSubjectNode(place, graphData)
         pans == ZoomFilter("mousedown", place, graphData)
     IN  IF ~pans /\ k # 0
         THEN /\ simulation' = [simulation EXCEPT
                                  !.alphaTarget = RaisedAlphaTarget, !.running = TRUE]
              /\ phys' = [phys EXCEPT ![k].pinned = TRUE]
              /\ closure' = [closure EXCEPT !.dragMoved = FALSE]
              /\ gesture' = [kind |-> "drag", node |-> k, moved |-> FALSE, live |-> TRUE,
                             objs |-> TRUE, src |-> closure.src, place |-> place]
              /\ transition' = transition
         ELSE IF pans
         THEN /\ gesture' = [kind |-> "pan", node |-> 0, moved |-> FALSE, live |-> TRUE,
                             objs |-> TRUE, src |-> closure.src, place |-> place]
              /\ transition' = [transition EXCEPT !.frames = 0]
              /\ UNCHANGED << simulation, phys, closure >>
         ELSE UNCHANGED << gesture, transition, simulation, phys, closure >>
  /\ evt' = [NoEvt EXCEPT !.op = "MouseDown", !.resolved = Resolved(place, graphData)]
  /\ UNCHANGED << phase, paths, pageInfo, searchTerm, graphData, dimensions,
                  showAllTitles, pendGraph, pendDims, initialPositions,
                  prevStructuralData, prevDimensions, fsListener, observing, fullscreen >>

\* mousemove of the gesture (its listeners are on the window): the "drag" handler
\* moves the pin and sets dragMoved past the threshold; a pan emits "zoom".
MouseMove(dist) ==
  /\ gesture.kind # "none"
  /\ UNCHANGED << hovered, calc >>
  /\ Spend
  /\ gesture' = [gesture EXCEPT !.moved = TRUE]
  /\ IF gesture.kind = "drag"
     THEN /\ phys' = IF gesture.objs THEN [phys EXCEPT ![gesture.node].pinned = TRUE]
                     ELSE phys
          /\ closure' = IF gesture.live
                        THEN [closure EXCEPT !.dragMoved = @ \/ dist > DragThreshold]
                        ELSE closure
          /\ evt' = [NoEvt EXCEPT !.op = "MouseMove"]
     ELSE /\ evt' = [NoEvt EXCEPT !.op = "MouseMove", !.draw = TRUE,
                                  !.used = << gesture.src >>]
          /\ UNCHANGED << phys, closure >>
  /\ UNCHANGED << phase, paths, pageInfo, searchTerm, graphData, dimensions,
                  showAllTitles, pendGraph, pendDims, simulation, transition,
                  initialPositions, prevStructuralData, prevDimensions,
                  fsListener, observing, fullscreen >>

\* mouseup ends the gesture ("end" handler of the drag), and when the mouse did
\* not move the browser then sends "click" to the canvas (d3 swallows the click
\* that follows a moved gesture), which runs handleClick.
MouseUp ==
  /\ gesture.kind # "none"
  /\ UNCHANGED << hovered, calc >>
  /\ Spend
  /\ gesture' = NoGesture
  /\ simulation' = IF gesture.kind = "drag" /\ gesture.live
                   THEN [simulation EXCEPT !.alphaTarget = 0]
                   ELSE simulation
  /\ phys' = IF gesture.kind = "drag" /\ gesture.objs
             THEN [phys EXCEPT ![gesture.node].pinned = FALSE]
             ELSE phys
  /\ LET clicked == ~gesture.moved /\ phase = "mounted" /\ closure.registered
         k == FindSubjectNode(gesture.place, graphData)
         j == FindLink(gesture.place, graphData)
     IN  evt' = [NoEvt EXCEPT
                   !.op = "MouseUp",
                   !.click = clicked,
                   !.resolved = IF ~clicked THEN "none"
                                ELSE IF k # 0 THEN "node"
                                ELSE IF j # 0 THEN "link" ELSE "none",
                   !.target = IF ~clicked THEN NullTitle
                              ELSE IF k # 0 THEN graphData.nodes[k].id
                              ELSE IF j # 0 THEN graphData.links[j].target
                              ELSE NullTitle,
                   !.nav = IF clicked
                           THEN HandleClick(closure.dragMoved, gesture.place, graphData)
                           ELSE NullTitle]
  /\ UNCHANGED << phase, paths, pageInfo, searchTerm, graphData, dimensions,
                  showAllTitles, pendGraph, pendDims, closure, transition,
                  initialPositions, prevStructuralData, prevDimensions,
                  fsListener, observing, fullscreen >>

\* wheel on the canvas with the pointer at the place: when the zoom filter
\* accepts it, d3-zoom interrupts the transition and emits "zoom".
Wheel(place) ==
  /\ phase = "mounted"
  /\ UNCHANGED << hovered, calc >>
  /\ closure.registered
  /\ Spend
  /\ LET zooms == ZoomFilter("wheel", place, graphData)
     IN  /\ transition' = IF zooms THEN [transition EXCEPT !.frames = 0] ELSE transition
         /\ evt' = [NoEvt EXCEPT !.op = "Wheel", !.draw = zooms,
                                 !.used = IF zooms THEN << closure.src >> ELSE << >>,
                                 !.resolved = Resolved(place, graphData)]
  /\ UNCHANGED << phase, paths, pageInfo, searchTerm, graphData, dimensions,
                  showAllTitles, pendGraph, pendDims, simulation, closure, gesture,
                  initialPositions, prevStructuralData, prevDimensions, phys,
                  fsListener, observing, fullscreen >>

\* handlePointerMove: "pointermove" on the canvas with the pointer at the place.
\* setHoveredNode and setHoveredLink of one event are rendered together; the
\* render runs no effect, as hoveredNode / hoveredLink are no dependency.
PointerMove(place) ==
  /\ phase = "mounted"
  /\ closure.registered
  /\ Spend
  /\ LET subject == FindSubjectNode(place, graphData)
         foundLink == HoverLink(subject, place, graphData)
         changed == closure.activeHoverNode # subject \/ closure.activeHoverLink # foundLink
     IN  /\ closure' = IF changed
                       THEN [closure EXCEPT !.activeHoverNode = subject,
                                            !.activeHoverLink = foundLink]
                       ELSE closure
         /\ hovered' = IF changed THEN [node |-> subject, link |-> foundLink, objs |-> TRUE]
                       ELSE hovered
         /\ evt' = [NoEvt EXCEPT !.op = "PointerMove", !.draw = changed,
                                 !.used = IF changed THEN << closure.src >> ELSE << >>,
                                 !.resolved = Resolved(place, graphData)]
  /\ UNCHANGED << phase, paths, pageInfo, searchTerm, graphData, dimensions,
                  showAllTitles, pendGraph, pendDims, simulation, transition, gesture,
                  initialPositions, prevStructuralData, prevDimensions, phys,
                  fsListener, observing, fullscreen, calc >>

\* handleReset (the Reset button).
HandleReset ==
  /\ phase = "mounted"
  /\ UNCHANGED << hovered, calc >>
  /\ Spend
  /\ IF closure.exists /\ initialPositions # {}
     THEN /\ phys' = [k \in 1..Len(phys) |->
                        ResetNode(phys[k], graphData.nodes[k].id \in initialPositions)]
          /\ transition' = IF Len(graphData.nodes) # 0
                           THEN [frames |-> MaxFrames, src |-> closure.src]
                           ELSE transition
          /\ simulation' = [simulation EXCEPT !.running = TRUE, !.cool = CoolTicks]
          /\ evt' = [NoEvt EXCEPT
                       !.op = "HandleReset",
                       !.moved = \E k \in 1..Len(phys) : phys[k].at # "lane" \/ phys[k].pinned,
                       !.fit = Len(graphData.nodes) # 0,
                       !.used = IF Len(graphData.nodes) # 0 THEN << graphData.src >> ELSE << >>]
     ELSE /\ evt' = [NoEvt EXCEPT !.op = "HandleReset"]
          /\ UNCHANGED << phys, transition, simulation >>
  /\ UNCHANGED << phase, paths, pageInfo, searchTerm, graphData, dimensions,
                  showAllTitles, pendGraph, pendDims, closure, gesture,
                  initialPositions, prevStructuralData, prevDimensions,
                  fsListener, observing, fullscreen >>

\* The component is unmounted. React detaches containerRef before it runs the
\* effect cleanups, so the resize cleanup's "if (containerRef.current)" is false.
ContainerRefAtCleanup == FALSE

Unmount ==
  /\ phase = "mounted"
  /\ UNCHANGED << hovered, calc >>
  /\ Spend
  /\ phase' = "unmounted"
  /\ fsListener' = FALSE
  /\ observing' = IF ContainerRefAtCleanup THEN FALSE ELSE observing
  /\ simulation' = IF closure.registered THEN [simulation EXCEPT !.running = FALSE]
                   ELSE simulation
  /\ closure' = [closure EXCEPT !.registered = FALSE]
  /\ gesture' = IF gesture.kind = "none" THEN gesture ELSE [gesture EXCEPT !.live = FALSE]
  /\ pendGraph' = << >>
  /\ pendDims' = << >>
  /\ evt' = [NoEvt EXCEPT !.op = "Unmount"]
  /\ UNCHANGED << paths, pageInfo, searchTerm, graphData, dimensions,
                  showAllTitles, transition, initialPositions, prevStructuralData,
                  prevDimensions, phys, fullscreen >>

(***************************************************************************)
(* The mounted view and its environment.                                   *)
(***************************************************************************)
Init ==
  /\ FreshComponent
  /\ calc = NoCalc
  /\ paths \in ViewPathSets
  /\ pageInfo \in ViewPageInfos
  /\ searchTerm = << >>
  /\ limit = MaxEvents

Next ==
  \/ Mount
  \/ Rerender
  \/ \E np \in ViewPathSets, npi \in ViewPageInfos : ReceiveProps(np, npi)
  \/ \E term \in SearchTerms : SetSearchTerm(term)
  \/ ToggleTitleVisibility
  \/ SetTheme
  \/ \E rect \in ContainerRects : ResizeObserved(rect)
  \/ \E rect \in ContainerRects : FullscreenChange(rect)
  \/ Tick
  \/ TransitionFrame
  \/ HandleReset
  \/ Unmount

Spec == Init /\ [][Next]_vars

(***************************************************************************)
(* The graph model builder on every bounded input: a component mounted     *)
(* with the input as its props, up to the commit of the built graph.       *)
(***************************************************************************)
InitBuilder ==
  /\ FreshComponent
  /\ calc = NoCalc
  /\ paths \in PathSetInputs
  /\ pageInfo \in PageInfoMaps
  /\ searchTerm = << >>
  /\ limit = 0

NextBuilder == Mount \/ Rerender

SpecBuilder == InitBuilder /\ [][NextBuilder]_vars

(***************************************************************************)
(* The pointer gestures on a mounted view: mouse input, the simulation     *)
(* and the restyling that replaces the listeners.                          *)
(***************************************************************************)
InitPointer ==
  /\ FreshComponent
  /\ calc = NoCalc
  /\ paths \in { << <<1, 2>> >>, << <<1, 2>>, <<2, 1>> >> }
  /\ pageInfo = CompleteInfo
  /\ searchTerm = << >>
  /\ limit = MaxPointerEvents

NextPointer ==
  \/ Mount
  \/ Rerender
  \/ Tick
  \/ TransitionFrame
  \/ \E place \in Places(graphData) : MouseDown(place)
  \/ \E dist \in PointerDistances : MouseMove(dist)
  \/ MouseUp
  \/ \E place \in Places(graphData) : Wheel(place)
  \/ ToggleTitleVisibility

SpecPointer == InitPointer /\ [][NextPointer]_vars

(***************************************************************************)
(* Hovering, dragging, panning, zooming and the Reset button on a mounted  *)
(* view whose search term may change.                                      *)
(***************************************************************************)
InitGesture ==
  /\ FreshComponent
  /\ calc = NoCalc
  /\ paths = << <<1, 2>> >>
  /\ pageInfo = CompleteInfo
  /\ searchTerm = << >>
  /\ limit = MaxGestureEvents

NextGesture ==
  \/ Mount
  \/ Rerender
  \/ Tick
  \/ \E place \in Places(graphData) : PointerMove(place)
  \/ \E place \in Places(graphData) : MouseDown(place)
  \/ \E dist \in PointerDistances : MouseMove(dist)
  \/ MouseUp
  \/ \E place \in Places(graphData) : Wheel(place)
  \/ HandleReset
  \/ \E term \in SearchTerms : SetSearchTerm(term)

SpecGesture == InitGesture /\ [][NextGesture]_vars

(***************************************************************************)
(* JavaScript numbers, kept exact: a number is a fraction <<n, d>> in      *)
(* lowest terms with d > 0.                                                *)
(***************************************************************************)
Abs(n) == IF n < 0 THEN -n ELSE n
RECURSIVE GCD(_, _)
GCD(a, b) == IF b = 0 THEN a ELSE GCD(b, a % b)
Rat(n, d) ==
  LET sgn == IF d < 0 THEN -1 ELSE 1
      g == GCD(Abs(n), Abs(d))
  IN  << (sgn * n) \div g, (sgn * d) \div g >>
RInt(n) == << n, 1 >>
RAdd(a, b) == Rat(a[1] * b[2] + b[1] * a[2], a[2] * b[2])
RSub(a, b) == Rat(a[1] * b[2] - b[1] * a[2], a[2] * b[2])
RMul(a, b) == Rat(a[1] * b[1], a[2] * b[2])
RDiv(a, b) == Rat(a[1] * b[2], a[2] * b[1])
RLess(a, b) == a[1] * b[2] < b[1] * a[2]
RLeq(a, b) == a[1] * b[2] <= b[1] * a[2]
\* Math.min, Math.max
RMin(a, b) == IF RLess(b, a) THEN b ELSE a
RMax(a, b) == IF RLess(a, b) THEN b ELSE a

(***************************************************************************)
(* zoomToFit: the camera transform it hands to zoom.transform.             *)
(***************************************************************************)
NodeRadius == 14
FitMargin == 10
\* Math.min(1.2, ...)
MaxFitScale == Rat(6, 5)

\* nodes.forEach(...): the running Math.min / Math.max over pos[1..i].
RECURSIVE MinOver(_, _, _)
MinOver(pos, i, coord) ==
  IF i = 1 THEN pos[1][coord]
  ELSE RMin(MinOver(pos, i - 1, coord), pos[i][coord])
RECURSIVE MaxOver(_, _, _)
MaxOver(pos, i, coord) ==
  IF i = 1 THEN pos[1][coord]
  ELSE RMax(MaxOver(pos, i - 1, coord), pos[i][coord])

\* The scale that looks at the width only.
FitScaleWidthOnly(graphWidth, graphHeight, width, height) ==
  RMin(MaxFitScale, RDiv(RInt(width - 2 * FitMargin), graphWidth))

\* Math.min(1.2, scaleFitWidth, scaleFitHeight)
FitScale(graphWidth, graphHeight, width, height) ==
  RMin(RMin(MaxFitScale, RDiv(RInt(width - 2 * FitMargin), graphWidth)),
       RDiv(RInt(height - 2 * FitMargin), graphHeight))

\* pos is the sequence of the nodes' positions [x, y]; the result is the
\* transform d3.zoomIdentity.translate(tx, ty).scale(scale), [k, x, y].
ZoomToFit(pos, width, height) ==
  LET minX == RSub(MinOver(pos, Len(pos), "x"), RInt(NodeRadius))
      maxX == RAdd(MaxOver(pos, Len(pos), "x"), RInt(NodeRadius))
      minY == RSub(MinOver(pos, Len(pos), "y"), RInt(NodeRadius))
      maxY == RAdd(MaxOver(pos, Len(pos), "y"), RInt(NodeRadius))
      graphWidth == RMax(RInt(1), RSub(maxX, minX))
      graphHeight == RMax(RInt(1), RSub(maxY, minY))
      scale == FitScale(graphWidth, graphHeight, width, height)
      cx == RDiv(RAdd(minX, maxX), RInt(2))
      cy == RDiv(RAdd(minY, maxY), RInt(2))
  IN  [ k |-> scale,
        x |-> RSub(Rat(width, 2), RMul(scale, cx)),
        y |-> RSub(Rat(height, 2), RMul(scale, cy)) ]

\* transform.apply([x, y]): the screen point of a world point.
ApplyX(t, x) == RAdd(RMul(x, t.k), t.x)
ApplyY(t, y) == RAdd(RMul(y, t.k), t.y)
\* transform.invert([mx, my]): the world point of a screen point.
InvertX(t, mx) == RDiv(RSub(mx, t.x), t.k)
InvertY(t, my) == RDiv(RSub(my, t.y), t.k)

(***************************************************************************)
(* zoomToFit on every bounded arrangement of nodes and every viewport.     *)
(***************************************************************************)
MaxFitNodes == 2
FitPositions == { [x |-> RInt(px), y |-> RInt(py)] : px \in {-200, 0, 1500}, py \in {0, 900} }
FitViewports ==
  { [width |-> InitialWidth, height |-> InitialHeight],
    [width |-> 1000, height |-> 600],
    [width |-> 2 * FitMargin, height |-> 2 * FitMargin],
    [width |-> FitMargin, height |-> InitialHeight] }

\* Everything of the view that a function applied on its own leaves alone.
IdleView ==
  /\ FreshComponent
  /\ paths = << >>
  /\ pageInfo = [i \in PageIds |-> MissingEntry]
  /\ searchTerm = << >>
  /\ limit = 0

InitFit ==
  /\ IdleView
  /\ \E pos \in SeqsUpTo(FitPositions, MaxFitNodes) \ { << >> }, view \in FitViewports :
       calc = [fn |-> "zoomToFit", pos |-> pos, width |-> view.width,
               height |-> view.height, done |-> FALSE, transform |-> << >>]

\* if (!nodes.length) return; ... .call(zoom.transform, transform)
ZoomToFitCall ==
  /\ calc.fn = "zoomToFit"
  /\ ~calc.done
  /\ calc' = [calc EXCEPT !.done = TRUE,
                          !.transform = ZoomToFit(calc.pos, calc.width, calc.height)]
  /\ UNCHANGED viewVars

NextFit == ZoomToFitCall

SpecFit == InitFit /\ [][NextFit]_vars

(***************************************************************************)
(* The depth-ordering solver.                                              *)
(***************************************************************************)
\* Number.NaN
NaN == << 0, 0 >>

\* buildDepthGroups: depth -> the ids of that depth, in the order of nodes.
RECURSIVE IdsAtDepth(_, _, _)
IdsAtDepth(nodes, i, d) ==
  IF i = 0 THEN << >>
  ELSE IF nodes[i].depth = d THEN Append(IdsAtDepth(nodes, i - 1, d), nodes[i].id)
  ELSE IdsAtDepth(nodes, i - 1, d)
BuildDepthGroups(nodes) ==
  [d \in { nodes[k].depth : k \in 1..Len(nodes) } |-> IdsAtDepth(nodes, Len(nodes), d)]

\* buildAdjacency: out.get(id) ?? [] and inc.get(id) ?? []
OutOf(links, id) == { links[j].target : j \in { i \in 1..Len(links) : links[i].source = id } }
IncOf(links, id) == { links[j].source : j \in { i \in 1..Len(links) : links[i].target = id } }

\* indexPrev.get(p) ?? 0: the zero-based index of id in column, 0 when absent.
IndexIn(column, id) ==
  IF \E i \in 1..Len(column) : column[i] = id
  THEN (CHOOSE i \in 1..Len(column) : column[i] = id) - 1
  ELSE 0

\* [...arr].sort((x, y) => x - y) of the indices of the ids in S.
RECURSIVE SortedIndices(_, _)
SortedIndices(S, column) ==
  IF S = {} THEN << >>
  ELSE LET least == CHOOSE x \in S : \A y \in S : IndexIn(column, x) <= IndexIn(column, y)
       IN  << IndexIn(column, least) >> \o SortedIndices(S \ {least}, column)

\* median
Median(a) ==
  IF Len(a) = 0 THEN NaN
  ELSE LET m == Len(a) \div 2
       IN  IF Len(a) % 2 = 1 THEN RInt(a[m + 1]) ELSE Rat(a[m] + a[m + 1], 2)

\* The comparator that puts a node without a median in front.
CompareMediansNaNFirst(ma, mb) ==
  IF ma = NaN /\ mb = NaN THEN 0
  ELSE IF ma = NaN THEN -1
  ELSE IF mb = NaN THEN 1
  ELSE IF RLess(ma, mb) THEN -1
  ELSE IF RLess(mb, ma) THEN 1 ELSE 0

\* The comparator of cur.sort: its sign.
CompareMedians(ma, mb) ==
  IF ma = NaN /\ mb = NaN THEN 0
  ELSE IF ma = NaN THEN 1
  ELSE IF mb = NaN THEN -1
  ELSE IF RLess(ma, mb) THEN -1
  ELSE IF RLess(mb, ma) THEN 1 ELSE 0

\* Array.prototype.sort is stable: cur sorted by the medians med[id].
RECURSIVE StableSort(_, _)
StableSort(cur, med) ==
  IF Len(cur) <= 1 THEN cur
  ELSE LET rest == StableSort(SubSeq(cur, 1, Len(cur) - 1), med)
           x == cur[Len(cur)]
           pos == Cardinality({ i \in 1..Len(rest) : CompareMedians(med[rest[i]], med[x]) <= 0 })
       IN  SubSeq(rest, 1, pos) \o << x >> \o SubSeq(rest, pos + 1, Len(rest))

\* order.get(d) sorted by the medians of the neighbours' indices in the column
\* beside it: inc and the column d - 1 going down, out and d + 1 going up.
SortColumn(order, d, beside, links, down) ==
  LET cur == order[d]
      med == [id \in { cur[i] : i \in 1..Len(cur) } |->
                Median(SortedIndices(IF down THEN IncOf(links, id) ELSE OutOf(links, id),
                                     order[beside]))]
  IN  [order EXCEPT ![d] = StableSort(cur, med)]

\* for (let d = 1; d <= maxDepth; d++)
RECURSIVE TopDown(_, _, _, _)
TopDown(order, d, maxDepth, links) ==
  IF d > maxDepth THEN order
  ELSE TopDown(SortColumn(order, d, d - 1, links, TRUE), d + 1, maxDepth, links)

\* for (let d = maxDepth - 1; d >= 0; d--)
RECURSIVE BottomUp(_, _, _)
BottomUp(order, d, links) ==
  IF d < 0 THEN order
  ELSE BottomUp(SortColumn(order, d, d + 1, links, FALSE), d - 1, links)

RECURSIVE Sweep(_, _, _, _)
Sweep(order, s, maxDepth, links) ==
  IF s = 0 THEN order
  ELSE Sweep(BottomUp(TopDown(order, 1, maxDepth, links), maxDepth - 1, links),
             s - 1, maxDepth, links)

\* orderColumnsByMedian: order.get(d)! of a depth without nodes is undefined, and
\* the first sweep, which reads every column from 0 to maxDepth, ends in a
\* TypeError.
OrderColumnsByMedian(depthGroups, links, sweeps) ==
  LET maxDepth == CHOOSE d \in DOMAIN depthGroups : \A e \in DOMAIN depthGroups : e <= d
  IN  IF sweeps > 0 /\ DOMAIN depthGroups # 0..maxDepth
      THEN [threw |-> TRUE, order |-> depthGroups]
      ELSE [threw |-> FALSE, order |-> Sweep(depthGroups, sweeps, maxDepth, links)]

\* orderColumnsByMedian(depthGroupsIds, depthOf, { out, inc }, 2)
SolverSweeps == 2

(***************************************************************************)
(* The solver on the graphs of a pool of shortest paths, applied to the    *)
(* depth groups and then to its own output.                                *)
(***************************************************************************)
SolverPool ==
  << <<1, 2, 4, 8, 11>>, <<1, 3, 4, 9, 11>>, <<1, 3, 5, 8, 11>>,
     <<1, 3, 6, 9, 11>>, <<1, 3, 7, 8, 11>>, <<1, 2, 5, 10, 11>> >>
\* Page i has the title of i letters.
SolverInfo == [i \in 1..11 |-> [k \in 1..i |-> "A"]]

\* The paths of the pool picked by S, in the order of the pool.
RECURSIVE PickPaths(_, _)
PickPaths(S, i) ==
  IF i = 0 THEN << >>
  ELSE IF i \in S THEN Append(PickPaths(S, i - 1), SolverPool[i])
  ELSE PickPaths(S, i - 1)

InitSolver ==
  /\ IdleView
  /\ \E S \in (SUBSET (1..Len(SolverPool))) \ {{}} :
       LET graph == BuildGraph(PickPaths(S, Len(SolverPool)), SolverInfo, << >>)
       IN  calc = [fn |-> "orderColumnsByMedian", nodes |-> graph.nodes,
                   links |-> graph.links, runs |-> 0, first |-> << >>, second |-> << >>]

\* The solver on the depth groups of the graph.
SolveColumns ==
  /\ calc.fn = "orderColumnsByMedian"
  /\ calc.runs = 0
  /\ calc' = [calc EXCEPT
                !.runs = 1,
                !.first = OrderColumnsByMedian(BuildDepthGroups(calc.nodes), calc.links,
                                               SolverSweeps)]
  /\ UNCHANGED viewVars

\* The solver on its own output, over the same adjacency.
SolveColumnsAgain ==
  /\ calc.fn = "orderColumnsByMedian"
  /\ calc.runs = 1
  /\ ~calc.first.threw
  /\ calc' = [calc EXCEPT
                !.runs = 2,
                !.second = OrderColumnsByMedian(calc.first.order, calc.links, SolverSweeps)]
  /\ UNCHANGED viewVars

NextSolver == SolveColumns \/ SolveColumnsAgain

SpecSolver == InitSolver /\ [][NextSolver]_vars

(***************************************************************************)
(* The depth groups and the solver on the graphs of path sets of any       *)
(* shape, for every number of sweeps.                                      *)
(***************************************************************************)
MaxSweeps == 3
ColumnPool ==
  << <<1>>, <<1, 7>>, <<1, 2, 3>>, <<1, 4, 3>>, <<5, 1, 6>>, <<1, 4, 6, 3>> >>

\* The paths of the pool picked by S, in the order of the pool.
RECURSIVE PickColumnPaths(_, _)
PickColumnPaths(S, i) ==
  IF i = 0 THEN << >>
  ELSE IF i \in S THEN Append(PickColumnPaths(S, i - 1), ColumnPool[i])
  ELSE PickColumnPaths(S, i - 1)

InitColumns ==
  /\ IdleView
  /\ \E S \in (SUBSET (1..Len(ColumnPool))) \ {{}}, sweeps \in 0..MaxSweeps :
       LET graph == BuildGraph(PickColumnPaths(S, Len(ColumnPool)), SolverInfo, << >>)
       IN  calc = [fn |-> "columns", nodes |-> graph.nodes, links |-> graph.links,
                   sweeps |-> sweeps, grouped |-> FALSE, solved |-> FALSE,
                   groups |-> << >>, result |-> << >>]

\* buildDepthGroups(graphData.nodes)
GroupColumns ==
  /\ calc.fn = "columns"
  /\ ~calc.grouped
  /\ calc' = [calc EXCEPT !.grouped = TRUE, !.groups = BuildDepthGroups(calc.nodes)]
  /\ UNCHANGED viewVars

\* orderColumnsByMedian(depthGroupsIds, depthOf, { out, inc }, sweeps)
OrderColumns ==
  /\ calc.fn = "columns"
  /\ calc.grouped
  /\ ~calc.solved
  /\ calc' = [calc EXCEPT
                !.solved = TRUE,
                !.result = OrderColumnsByMedian(calc.groups, calc.links, calc.sweeps)]
  /\ UNCHANGED viewVars

NextColumns == GroupColumns \/ OrderColumns

SpecColumns == InitColumns /\ [][NextColumns]_vars

(***************************************************************************)
(* The lane layout of the layout/render effect.                            *)
(***************************************************************************)
LaneMarginX == 80
RowSpacing == 150

\* colHeights.get(d) ?? 0
ColHeight(ordered, d) ==
  IF d \in DOMAIN ordered /\ Len(ordered[d]) > 1 THEN (Len(ordered[d]) - 1) * RowSpacing ELSE 0

\* Math.max(0, ...colHeights.values())
MaxColHeight(ordered) ==
  LET hs == { ColHeight(ordered, d) : d \in DOMAIN ordered } \cup {0}
  IN  CHOOSE h \in hs : \A g \in hs : g <= h

\* weights[d] = 1 + (maxColH > 0 ? (colHeights.get(d) ?? 0) / maxColH : 0)
Weight(ordered, d) ==
  IF MaxColHeight(ordered) > 0
  THEN RAdd(RInt(1), Rat(ColHeight(ordered, d), MaxColHeight(ordered)))
  ELSE RInt(1)

\* weights[0] + ... + weights[d - 1]: weightSum for d = maxDepth + 1, acc before.
RECURSIVE WeightsBelow(_, _)
WeightsBelow(ordered, d) ==
  IF d = 0 THEN RInt(0)
  ELSE RAdd(WeightsBelow(ordered, d - 1), Weight(ordered, d - 1))

\* The usable width that does not follow the viewport width.
UsableWidthFixed(maxColH, width, height) ==
  IF maxColH > 0 THEN RInt(maxColH) ELSE RInt(InitialWidth - 2 * LaneMarginX)

\* maxColH > 0 ? maxColH * (width / height) : width - 2 * marginX
UsableWidth(maxColH, width, height) ==
  IF maxColH > 0 THEN RMul(RInt(maxColH), Rat(width, height))
  ELSE RInt(width - 2 * LaneMarginX)

\* xAtDepth.get(d)
XAtDepth(ordered, d, maxDepth, width, height) ==
  LET centerFrac == RDiv(RAdd(WeightsBelow(ordered, d), RDiv(Weight(ordered, d), RInt(2))),
                         WeightsBelow(ordered, maxDepth + 1))
  IN  RAdd(RInt(LaneMarginX),
           RMul(centerFrac, UsableWidth(MaxColHeight(ordered), width, height)))

\* ids.length > 1 ? startY + i * ROW_SPACING : height / 2, for the i-th id (from 0)
YInColumn(ordered, d, i, height) ==
  IF Len(ordered[d]) > 1
  THEN RAdd(Rat(height - ColHeight(ordered, d), 2), RInt(i * RowSpacing))
  ELSE Rat(height, 2)

\* The lane coordinate given to every node (node.x, node.y and the entry of
\* initialPositionsRef), in the order of nodes.
LaneLayout(nodes, links, width, height) ==
  LET ordered == OrderColumnsByMedian(BuildDepthGroups(nodes), links, SolverSweeps).order
      depths == { nodes[k].depth : k \in 1..Len(nodes) }
      maxDepth == CHOOSE d \in depths : \A e \in depths : e <= d
  IN  [k \in 1..Len(nodes) |->
         [ x |-> XAtDepth(ordered, nodes[k].depth, maxDepth, width, height),
           y |-> YInColumn(ordered, nodes[k].depth,
                           IndexIn(ordered[nodes[k].depth], nodes[k].id), height) ]]

(***************************************************************************)
(* Hit testing: findSubjectNode on world coordinates.                      *)
(***************************************************************************)
FindRadius == 30
BaseFontSize == 14
\* context.measureText(name).width of the canvas font, per character.
CharWidth == 8
ZoomScales == { Rat(1, 200), RInt(1), RInt(4) }

\* (wx - x) ** 2 + (wy - y) ** 2
Dist2(p, wx, wy) ==
  RAdd(RMul(RSub(wx, p.x), RSub(wx, p.x)), RMul(RSub(wy, p.y), RSub(wy, p.y)))

\* simulation.find(wx, wy, radius): the first of the nodes nearest to the point
\* among those nearer than radius; 0 for undefined.
SimulationFind(pos, wx, wy, radius) ==
  LET near == { k \in 1..Len(pos) : RLess(Dist2(pos[k], wx, wy), RMul(radius, radius)) }
      nearest == { k \in near : \A j \in near : RLeq(Dist2(pos[k], wx, wy), Dist2(pos[j], wx, wy)) }
  IN  IF near = {} THEN 0 ELSE CHOOSE k \in nearest : \A j \in nearest : k <= j

\* if (showAllTitles || node.isStart || node.isEnd): the nodes of the fallback.
LabelTested(node, showTitles) == showTitles \/ node.isStart \/ node.isEnd

\* shouldShowLabel of drawGraph for the k-th node: hover is the index of
\* activeHoverNode (0 for null), term the searchTerm prop.
ShouldShowLabel(node, k, showTitles, hover, term) ==
  \/ showTitles
  \/ node.isStart
  \/ node.isEnd
  \/ k = hover
  \/ (Trim(term) # << >> /\ node.isSearchMatch)

\* (node.isStart || node.isEnd ? 14 : 10) + 5
LabelOffset(node) == (IF node.isStart \/ node.isEnd THEN 14 ELSE 10) + 5

\* The label box of a node holds the point.
InLabel(node, p, wx, wy) ==
  LET textWidth == Rat(CharWidth * Len(node.name), 2)
      offset == LabelOffset(node)
      yTop == RSub(p.y, RInt(offset + BaseFontSize))
      yBottom == RSub(p.y, RInt(offset))
  IN  /\ RLeq(RSub(p.x, textWidth), wx)
      /\ RLeq(wx, RAdd(p.x, textWidth))
      /\ RLeq(yTop, wy)
      /\ RLeq(wy, yBottom)

\* findSubjectNode for a pointer at the screen point (mx, my) under transform t:
\* the index of the node it returns, 0 for null.
FindSubjectNodeAt(nodes, pos, t, mx, my, showTitles) ==
  LET wx == InvertX(t, mx)
      wy == InvertY(t, my)
      foundNode == SimulationFind(pos, wx, wy, RDiv(RInt(FindRadius), t.k))
      labelled == { k \in 1..Len(nodes) :
                      /\ LabelTested(nodes[k], showTitles)
                      /\ InLabel(nodes[k], pos[k], wx, wy) }
  IN  IF foundNode # 0 THEN foundNode
      ELSE IF labelled # {} THEN CHOOSE k \in labelled : \A j \in labelled : k <= j
      ELSE 0

(***************************************************************************)
(* The lane layout of a graph in a viewport, the layout again after the    *)
(* viewport changed, and a pointer at the screen point of a node.          *)
(***************************************************************************)
LayoutPathSets ==
  { << <<1>> >>, << <<1, 2>> >>, << <<1, 2, 3>>, <<1, 4, 3>> >> }
LayoutViewports ==
  { [width |-> InitialWidth, height |-> InitialHeight],
    [width |-> 1000, height |-> InitialHeight],
    [width |-> 2 * InitialWidth, height |-> 2 * InitialHeight],
    [width |-> 2 * LaneMarginX, height |-> InitialHeight] }
LayoutTransforms == { [k |-> k, x |-> RInt(tx), y |-> RInt(0)] : k \in ZoomScales, tx \in {0, 37} }

InitLayout ==
  /\ IdleView
  /\ \E p \in LayoutPathSets, view \in LayoutViewports :
       LET graph == BuildGraph(p, SolverInfo, << >>)
       IN  calc = [fn |-> "layout", nodes |-> graph.nodes, links |-> graph.links,
                   width |-> view.width, height |-> view.height,
                   laid |-> FALSE, pos |-> << >>,
                   prev |-> << >>, prevNodes |-> << >>, prevLinks |-> << >>,
                   prevWidth |-> 0, prevHeight |-> 0, hit |-> << >>]

\* The layout part of the layout/render effect.
LayoutPass ==
  /\ calc.fn = "layout"
  /\ ~calc.laid
  /\ calc' = [calc EXCEPT
                !.laid = TRUE,
                !.pos = LaneLayout(calc.nodes, calc.links, calc.width, calc.height)]
  /\ UNCHANGED viewVars

\* setDimensions with another width; the effect runs again.
ResizeViewport(view) ==
  /\ calc.fn = "layout"
  /\ calc.laid
  /\ calc.prev = << >>
  /\ calc.hit = << >>
  /\ view.width # calc.width
  /\ calc' = [calc EXCEPT
                !.laid = FALSE,
                !.prev = calc.pos, !.prevNodes = calc.nodes, !.prevLinks = calc.links,
                !.prevWidth = calc.width, !.prevHeight = calc.height,
                !.width = view.width, !.height = view.height]
  /\ UNCHANGED viewVars

\* A pointer event at the screen point of node n under the transform t.
HitTestAtNode(n, t) ==
  /\ calc.fn = "layout"
  /\ calc.laid
  /\ calc.hit = << >>
  /\ n \in 1..Len(calc.nodes)
  /\ calc' = [calc EXCEPT !.hit =
       << [ node |-> n, transform |-> t,
            found |-> FindSubjectNodeAt(calc.nodes, calc.pos, t,
                                        ApplyX(t, calc.pos[n].x), ApplyY(t, calc.pos[n].y),
                                        TRUE) ] >>]
  /\ UNCHANGED viewVars

NextLayout ==
  \/ LayoutPass
  \/ \E view \in LayoutViewports : ResizeViewport(view)
  \/ \E n \in 1..4, t \in LayoutTransforms : HitTestAtNode(n, t)

SpecLayout == InitLayout /\ [][NextLayout]_vars

(***************************************************************************)
(* The graph-building effect on search terms with upper case and spaces.   *)
(***************************************************************************)
SearchPageIds == 1..4
SearchInfo == [i \in SearchPageIds |->
                 IF i = 1 THEN <<"A">>
                 ELSE IF i = 2 THEN <<"A", "_", "b">>
                 ELSE IF i = 3 THEN <<"b">>
                 ELSE <<"b", "_", "b">>]
SearchPathSets ==
  { << <<1, 2, 3>> >>, << <<1, 4, 3>> >>, << <<1, 2, 3>>, <<1, 4, 3>> >>,
    << <<2, 1, 3>> >>, << <<3, 4, 1>> >> }
SearchTermInputs ==
  { << >>, <<"a">>, <<"A">>, <<"b">>, <<"B", " ", "b">>, <<"a", " ">>, <<" ", "b">>,
    <<" ">>, <<"a", "a">> }

NoGraph == [threw |-> FALSE, nodes |-> << >>, links |-> << >>]

InitSearch ==
  /\ IdleView
  /\ \E p \in SearchPathSets, term \in SearchTermInputs :
       calc = [fn |-> "search", paths |-> p, term |-> term, built |-> FALSE,
               graph |-> NoGraph, prevTerm |-> << >>, prevGraph |-> NoGraph]

\* The graph-building effect on the current props.
BuildWithSearch ==
  /\ calc.fn = "search"
  /\ ~calc.built
  /\ calc' = [calc EXCEPT !.built = TRUE,
                          !.graph = BuildGraph(calc.paths, SearchInfo, calc.term)]
  /\ UNCHANGED viewVars

\* The parent passes another searchTerm; the effect runs again.
ChangeSearchTerm(term) ==
  /\ calc.fn = "search"
  /\ calc.built
  /\ calc.prevGraph = NoGraph
  /\ term # calc.term
  /\ calc' = [calc EXCEPT !.built = FALSE, !.term = term,
                          !.prevTerm = calc.term, !.prevGraph = calc.graph]
  /\ UNCHANGED viewVars

NextSearch ==
  \/ BuildWithSearch
  \/ \E term \in SearchTermInputs : ChangeSearchTerm(term)

SpecSearch == InitSearch /\ [][NextSearch]_vars

(***************************************************************************)
(* The label of a node under the pointer: the graph in its lane layout,    *)
(* drawn with titles shown or hidden, a search term and a hovered node,    *)
(* and a pointer on the label of a node but off the dot of every node.     *)
(***************************************************************************)
LabelPathSets == { << <<1, 8, 11>> >>, << <<1, 8, 11>>, <<1, 9, 11>> >> }
LabelSearchTerms == { << >>, [i \in 1..9 |-> "a"] }
LabelScales == { RInt(1), RInt(4) }
\* Where in the label box the pointer is: the middle or the right end of its
\* lower edge.
LabelPoints == { "middle", "end" }

InitLabel ==
  /\ IdleView
  /\ \E p \in LabelPathSets, term \in LabelSearchTerms, show \in BOOLEAN, hover \in 0..3 :
       LET graph == BuildGraph(p, SolverInfo, term)
       IN  calc = [fn |-> "label", nodes |-> graph.nodes, links |-> graph.links,
                   pos |-> LaneLayout(graph.nodes, graph.links, InitialWidth, InitialHeight),
                   showAllTitles |-> show, searchTerm |-> term, activeHoverNode |-> hover,
                   hit |-> << >>]

\* A pointer event (pointermove, mousedown or click) with the pointer on the
\* label of node n, further from every dot than the radius of simulation.find.
LabelHitTest(n, k, point) ==
  /\ calc.fn = "label"
  /\ calc.hit = << >>
  /\ n \in 1..Len(calc.nodes)
  /\ LET t == [k |-> k, x |-> RInt(0), y |-> RInt(0)]
         wx == IF point = "middle" THEN calc.pos[n].x
               ELSE RAdd(calc.pos[n].x, Rat(CharWidth * Len(calc.nodes[n].name), 2))
         wy == RSub(calc.pos[n].y, RInt(LabelOffset(calc.nodes[n])))
     IN  /\ SimulationFind(calc.pos, wx, wy, RDiv(RInt(FindRadius), k)) = 0
         /\ calc' = [calc EXCEPT !.hit =
               << [ node |-> n,
                    found |-> FindSubjectNodeAt(calc.nodes, calc.pos, t,
                                                ApplyX(t, wx), ApplyY(t, wy),
                                                calc.showAllTitles) ] >>]
  /\ UNCHANGED viewVars

NextLabel ==
  \E n \in 1..4, k \in LabelScales, point \in LabelPoints : LabelHitTest(n, k, point)

SpecLabel == InitLabel /\ [][NextLabel]_vars

(***************************************************************************)
(* Properties of the graph model builder (SpecBuilder).                    *)
(***************************************************************************)
\* The graph built from the current props is the committed graphData.
Built ==
  /\ phase = "mounted"
  /\ pendGraph = << >>
  /\ Len(paths) > 0
  /\ graphData.src = paths

\* The zero-based indices at which a title occurs in the paths.
IndicesOf(title) ==
  UNION { { i - 1 : i \in { j \in 1..Len(paths[k]) : pageInfo[paths[k][j]] = title } }
          : k \in 1..Len(paths) }
Minimum(S) == CHOOSE m \in S : \A x \in S : m <= x

\* C1: for every path set, each node of the built graph has depth equal to the
\* minimum zero-based index at which its identity occurs in any path of the set.
C1_DepthIsMinimumIndex ==
  Built =>
    \A n \in 1..Len(graphData.nodes) :
      graphData.nodes[n].depth = Minimum(IndicesOf(graphData.nodes[n].id))

PageIdsInPaths == UNION { { paths[k][i] : i \in 1..Len(paths[k]) } : k \in 1..Len(paths) }
TitledIdentities == { pageInfo[id] : id \in { x \in PageIdsInPaths : pageInfo[x] # MissingEntry } }
UntitledIdentities == { id \in PageIdsInPaths : pageInfo[id] = MissingEntry }

\* C2: for every path set and every metadata lookup, also one without an entry
\* for an identity of a path, the builder does not throw, and the built graph
\* has one node for every distinct identity occurring in the paths.
C2_MissingMetadataNeverThrows ==
  /\ phase # "crashed"
  /\ Built =>
       Len(graphData.nodes) = Cardinality(TitledIdentities) + Cardinality(UntitledIdentities)

ConsecutivePairs ==
  UNION { { << pageInfo[paths[k][i]], pageInfo[paths[k][i + 1]] >> : i \in 1..(Len(paths[k]) - 1) }
          : k \in 1..Len(paths) }
LinkPairs ==
  { << graphData.links[j].source, graphData.links[j].target >> : j \in 1..Len(graphData.links) }

\* C3: the edge list holds exactly one edge for each distinct ordered pair
\* (source, target) of consecutive elements of some path and no other edge;
\* A->B and B->A are distinct edges.
C3_OneEdgePerOrderedPair ==
  Built =>
    /\ LinkPairs = ConsecutivePairs
    /\ Len(graphData.links) = Cardinality(ConsecutivePairs)

\* Two paths hold the same adjacency and the built graph has the one edge.
C3_Witness ==
  /\ Built
  /\ Len(paths) = 2
  /\ Len(paths[1]) = 2
  /\ paths[2] = paths[1]
  /\ Len(graphData.links) = 1

\* C4: for every non-empty path set, a node is flagged isStart exactly when its
\* identity is the element at position 0 of the first path, and isEnd exactly
\* when it is the last element of the first path, whatever positions the
\* identities have in later paths.
C4_StartEndFromFirstPath ==
  Built =>
    \A n \in 1..Len(graphData.nodes) :
      /\ graphData.nodes[n].isStart <=>
           (Len(paths[1]) > 0 /\ graphData.nodes[n].id = pageInfo[paths[1][1]])
      /\ graphData.nodes[n].isEnd <=>
           (Len(paths[1]) > 0 /\ graphData.nodes[n].id = pageInfo[paths[1][Len(paths[1])]])

\* A later path starts with another identity, whose node is not the start node.
C4_Witness ==
  /\ Built
  /\ Len(paths) = 2
  /\ Len(paths[1]) > 0
  /\ Len(paths[2]) > 0
  /\ \E n, m \in 1..Len(graphData.nodes) :
       /\ graphData.nodes[n].id = pageInfo[paths[2][1]]
       /\ ~graphData.nodes[n].isStart
       /\ graphData.nodes[m].isStart

(***************************************************************************)
(* Properties of the mounted view (Spec).                                  *)
(***************************************************************************)
\* C5: whenever the supplied path set is empty, the node and edge lists are
\* empty and no layout, simulation or fit-to-view runs for it, also when the
\* previous path set was non-empty. (Stated at the step that supplies the empty
\* path set to a view whose earlier state updates were all rendered.)
C5_EmptyPathSetSkipsEverything ==
  phase = "mounted" /\ Len(paths) = 0 /\ evt.op = "ReceiveProps" /\ ~evt.rebuilt =>
    /\ Len(graphData.nodes) = 0
    /\ Len(graphData.links) = 0
    /\ ~evt.layout
    /\ ~evt.fit
    /\ ~simulation.running

\* C6: after the path set changed, every layout pass, fit-to-view and redraw
\* uses the node/edge arrays built from the new path set, never those built
\* from the previous one. (Stated for the steps that do not themselves install
\* newly built arrays, and for a non-empty path set.)
C6_NoStepOnPreviousArrays ==
  phase = "mounted" /\ Len(paths) > 0 /\ ~evt.rebuilt /\ evt.used # << >> =>
    evt.used[1] = paths

RestyleOps == { "SetSearchTerm", "ToggleTitleVisibility" }

\* C7: a change of only the search term or only the title toggle (path set and
\* viewport unchanged) keeps every node's position and pin, replaces no
\* node/edge object and neither tears down nor recreates the simulation.
C7_RestyleKeepsStructuralState ==
  evt.op \in RestyleOps /\ evt.same /\ ~evt.rebuilt =>
    /\ ~evt.simNew
    /\ ~evt.moved
    /\ pendGraph = << >>

\* C8: once a graph has been rendered, a change of only the title toggle or
\* only the search term (node, edge and path counts and the viewport size
\* unchanged) never invokes fit-to-view, whatever happened before.
C8_RestyleNeverFits ==
  evt.op \in RestyleOps /\ evt.same => ~evt.fit

\* The title toggle after an earlier resize: the effect ran and did not fit.
C8_Witness ==
  /\ evt.op = "ToggleTitleVisibility"
  /\ evt.same
  /\ evt.layout
  /\ ~evt.fit
  /\ dimensions.width # InitialWidth

\* C10: after unmount nothing redraws and nothing the view registered stays
\* active: the simulation is stopped, the canvas listeners and the drag
\* handlers are gone, the fullscreen listener and the resize observation are
\* removed, and a fit-to-view animation in flight does not redraw.
C10_UnmountReleasesEverything ==
  phase = "unmounted" =>
    /\ ~evt.draw
    /\ ~simulation.running
    /\ ~closure.registered
    /\ gesture.kind # "none" => ~gesture.live
    /\ ~fsListener
    /\ ~observing

(***************************************************************************)
(* Properties of the pointer gestures (SpecPointer).                       *)
(***************************************************************************)
\* C9: with no drag in progress, a click that resolves to a node or an edge
\* navigates to that target, whatever gestures ended before it, and a click
\* that resolves to neither does nothing.
C9_ClickNavigatesToTarget ==
  evt.click => evt.nav = evt.target

(***************************************************************************)
(* Properties of fit-to-view (SpecFit).                                    *)
(***************************************************************************)
\* Every node's screen point lies in the viewport shrunk by the margin on each
\* side, and the scale is at most 1.2.
FitIsInsideMargins ==
  /\ RLeq(calc.transform.k, MaxFitScale)
  /\ \A i \in 1..Len(calc.pos) :
       /\ RLeq(RInt(FitMargin), ApplyX(calc.transform, calc.pos[i].x))
       /\ RLeq(ApplyX(calc.transform, calc.pos[i].x), RInt(calc.width - FitMargin))
       /\ RLeq(RInt(FitMargin), ApplyY(calc.transform, calc.pos[i].y))
       /\ RLeq(ApplyY(calc.transform, calc.pos[i].y), RInt(calc.height - FitMargin))

\* C11: for every graph with at least one node and every viewport, the
\* transform computed by fit-to-view projects every node inside the viewport
\* shrunk by the margin on each side, and its scale does not exceed 1.2.
C11_FitInsideMarginsEveryViewport ==
  calc.fn = "zoomToFit" /\ calc.done => FitIsInsideMargins

\* C11 as amended: the same for every viewport whose width and height are at
\* least twice the margin.
C11_FitInsideMargins ==
  calc.fn = "zoomToFit" /\ calc.done
    /\ calc.width >= 2 * FitMargin /\ calc.height >= 2 * FitMargin
  => FitIsInsideMargins

\* Two nodes apart, fitted with a scale below 1.2 and above 0.
C11_Witness ==
  /\ calc.fn = "zoomToFit"
  /\ calc.done
  /\ Len(calc.pos) = 2
  /\ calc.pos[1] # calc.pos[2]
  /\ RLess(calc.transform.k, MaxFitScale)
  /\ RLess(RInt(0), calc.transform.k)

\* C30: the scale computed by fit-to-view is always positive and lies within
\* the zoom behaviour's allowed scale extent [0.005, 4], for every graph with
\* at least one node and every viewport.
C30_FitScaleWithinExtent ==
  calc.fn = "zoomToFit" /\ calc.done =>
    /\ RLess(RInt(0), calc.transform.k)
    /\ \E lo \in ZoomScales, hi \in ZoomScales :
         /\ \A k \in ZoomScales : RLeq(lo, k) /\ RLeq(k, hi)
         /\ RLeq(lo, calc.transform.k)
         /\ RLeq(calc.transform.k, hi)

(***************************************************************************)
(* Properties of the depth-ordering solver (SpecSolver).                   *)
(***************************************************************************)
\* C13: running the solver (2 sweeps) on the output of a previous 2-sweep run
\* over the same adjacency returns that ordering unchanged.
C13_SolverIsIdempotent ==
  calc.fn = "orderColumnsByMedian" /\ calc.runs = 2 =>
    calc.second.order = calc.first.order

(***************************************************************************)
(* Properties of the lane layout and of hit testing (SpecLayout).          *)
(***************************************************************************)
\* C12: for every camera transform within the allowed zoom range and every
\* reachable arrangement of node positions, a pointer placed exactly at the
\* screen projection of a node's position resolves to that node.
C12_HitTestRoundTrip ==
  calc.fn = "layout" /\ calc.hit # << >> => calc.hit[1].found = calc.hit[1].node

\* C23: for every path set and every viewport with positive width and
\* height, the lane x coordinate is strictly increasing in depth: a node of
\* greater depth is placed strictly to the right of every node of smaller depth.
C23_LaneXIncreasesWithDepth ==
  calc.fn = "layout" /\ calc.laid /\ calc.width > 0 /\ calc.height > 0 =>
    \A k, j \in 1..Len(calc.nodes) :
      calc.nodes[k].depth < calc.nodes[j].depth => RLess(calc.pos[k].x, calc.pos[j].x)

\* The second layout gave every node another x, the same depth, and left the
\* edges alone.
ResizeMovedLanes ==
  /\ \A k \in 1..Len(calc.nodes) :
       /\ calc.pos[k].x # calc.prev[k].x
       /\ calc.nodes[k].depth = calc.prevNodes[k].depth
  /\ calc.links = calc.prevLinks

\* C20: with the path set fixed, any change of the viewport width changes the
\* lane-assigned x of the nodes and leaves every depth and the edge set as is.
C20_AnyWidthChangeMovesLanes ==
  calc.fn = "layout" /\ calc.laid /\ calc.prev # << >> => ResizeMovedLanes

\* C20 as amended: the same for a change of the viewport width with the
\* viewport height unchanged.
C20_WidthChangeMovesLanes ==
  calc.fn = "layout" /\ calc.laid /\ calc.prev # << >> /\ calc.height = calc.prevHeight
  => ResizeMovedLanes

\* A graph with a column of two rows, laid out again in a wider viewport of the
\* same height.
C20_Witness ==
  /\ calc.fn = "layout"
  /\ calc.laid
  /\ calc.prev # << >>
  /\ calc.height = calc.prevHeight
  /\ calc.width > calc.prevWidth
  /\ Len(calc.nodes) = 4
  /\ calc.pos[2].x # calc.prev[2].x

(***************************************************************************)
(* Properties of the search flags (SpecSearch).                            *)
(***************************************************************************)
\* The flags of graph g are those of the filter f: a node matches iff its
\* name holds f whatever the case, a node that does not match is connected iff
\* an edge joins it with a match, an edge is highlighted iff an end matches.
FlagsFollowFilter(g, f) ==
  LET Matches(id) ==
        \E k \in 1..Len(g.nodes) :
          g.nodes[k].id = id /\ Includes(ToLowerCase(g.nodes[k].name), ToLowerCase(f))
  IN  /\ \A k \in 1..Len(g.nodes) :
           /\ g.nodes[k].isSearchMatch <=> Matches(g.nodes[k].id)
           /\ ~Matches(g.nodes[k].id) =>
                (g.nodes[k].isSearchConnected <=>
                   \E j \in 1..Len(g.links) :
                     \/ g.links[j].source = g.nodes[k].id /\ Matches(g.links[j].target)
                     \/ g.links[j].target = g.nodes[k].id /\ Matches(g.links[j].source))
      /\ \A j \in 1..Len(g.links) :
           g.links[j].isSearchHighlighted <=>
             (Matches(g.links[j].source) \/ Matches(g.links[j].target))

\* C18: for a non-empty filter, a node is a search match iff its display name
\* contains the filter as a case-insensitive substring; a non-matching node is
\* search-connected iff it shares an edge, in either direction, with a matching
\* node; an edge is highlighted iff at least one endpoint is a match.
C18_FlagsFollowTheFilter ==
  calc.fn = "search" /\ calc.built /\ ~calc.graph.threw /\ calc.term # << >>
  => FlagsFollowFilter(calc.graph, calc.term)

\* C18 as amended: the same for a filter that is non-empty once its leading
\* and trailing spaces are removed, with the trimmed filter as the substring.
C18_FlagsFollowTheTrimmedFilter ==
  calc.fn = "search" /\ calc.built /\ ~calc.graph.threw /\ Trim(calc.term) # << >>
  => FlagsFollowFilter(calc.graph, Trim(calc.term))

\* A filter with a trailing space whose trimmed form matches a node; a node
\* that does not match is connected through an edge that ends at the match.
C18_Witness ==
  /\ calc.fn = "search"
  /\ calc.built
  /\ Trim(calc.term) # << >>
  /\ Trim(calc.term) # calc.term
  /\ \E k \in 1..Len(calc.graph.nodes) : calc.graph.nodes[k].isSearchMatch
  /\ \E k \in 1..Len(calc.graph.nodes), j \in 1..Len(calc.graph.links) :
       /\ calc.graph.nodes[k].isSearchConnected
       /\ calc.graph.links[j].source = calc.graph.nodes[k].id
       /\ calc.graph.links[j].isSearchHighlighted
  /\ \E j \in 1..Len(calc.graph.links) : ~calc.graph.links[j].isSearchHighlighted

\* The node identities of graph g, each with its depth.
DepthOfIds(g) == { << g.nodes[k].id, g.nodes[k].depth >> : k \in 1..Len(g.nodes) }
\* The edges of graph g.
EdgesOf(g) == { << g.links[j].source, g.links[j].target >> : j \in 1..Len(g.links) }
\* Some node or edge of graph g carries a search flag.
SomeFlag(g) ==
  \/ \E k \in 1..Len(g.nodes) : g.nodes[k].isSearchMatch \/ g.nodes[k].isSearchConnected
  \/ \E j \in 1..Len(g.links) : g.links[j].isSearchHighlighted

\* C19: clearing the search term after any earlier search sets isSearchMatch,
\* isSearchConnected and isSearchHighlighted to false on every node and edge,
\* and leaves the set of node identities, each node's depth and the set of
\* edges unchanged.
C19_ClearingResetsFlags ==
  calc.fn = "search" /\ calc.built /\ calc.prevTerm # << >> /\ calc.term = << >>
  => /\ ~SomeFlag(calc.graph)
     /\ DepthOfIds(calc.graph) = DepthOfIds(calc.prevGraph)
     /\ EdgesOf(calc.graph) = EdgesOf(calc.prevGraph)
     /\ Len(calc.graph.nodes) = Len(calc.prevGraph.nodes)
     /\ Len(calc.graph.links) = Len(calc.prevGraph.links)

\* The graph was built for a search that flagged nodes and edges, and built
\* again after the term was cleared.
C19_Witness ==
  /\ calc.fn = "search"
  /\ calc.built
  /\ calc.prevTerm # << >>
  /\ calc.term = << >>
  /\ SomeFlag(calc.prevGraph)
  /\ Len(calc.graph.links) > 2

(***************************************************************************)
(* Properties of hovering, gestures and reset (SpecGesture).               *)
(***************************************************************************)
\* C14: in every reachable state at most one of hovered node and hovered edge
\* is set; when the pointer resolves to a node the hovered edge is cleared,
\* even if an edge also lies within the edge threshold.
C14_HoverIsNodeOrEdge ==
  /\ ~(hovered.node # 0 /\ hovered.link # 0)
  /\ evt.op = "PointerMove" /\ evt.resolved = "node" => hovered.node # 0 /\ hovered.link = 0

\* The pointer moved onto the dot of a node, where the link of the node is
\* within the threshold as well.
C14_Witness ==
  /\ evt.op = "PointerMove"
  /\ evt.resolved = "node"
  /\ evt.draw
  /\ hovered.node # 0
  /\ FindLink([kind |-> "node", idx |-> hovered.node], graphData) # 0

\* C22: after any rebuild (new path set, search-term change, toggle, resize)
\* the hovered node and the hovered edge exposed to the surrounding UI are
\* each either absent or an element of the current node/edge arrays; hover
\* state resolved against an earlier build does not survive the rebuild.
C22_HoverIsOfCurrentGraph ==
  phase = "mounted" =>
    \/ hovered.node = 0 /\ hovered.link = 0
    \/ /\ hovered.objs
       /\ hovered.node <= Len(graphData.nodes)
       /\ hovered.link <= Len(graphData.links)

\* C15: a node carries a pinned position exactly while a drag gesture on it
\* is in progress: drag start pins it, each drag move sets the pin, drag end
\* clears it; in every state with no drag in progress no node is pinned.
C15_PinnedExactlyWhileDragged ==
  \A k \in 1..Len(phys) : phys[k].pinned <=> (gesture.kind = "drag" /\ gesture.node = k)

\* C25: from drag start until drag end the simulation's target energy is
\* raised (0.3) and the simulation keeps ticking, never stopping during the
\* drag; at drag end the target is set back to 0 and the simulation then cools
\* down. Stated here: in every state with a drag in progress the simulation
\* runs with the raised target, and with no drag in progress the target is 0.
C25_DragKeepsSimulationAwake ==
  /\ gesture.kind = "drag" =>
       simulation.running /\ simulation.alphaTarget = RaisedAlphaTarget
  /\ gesture.kind # "drag" => simulation.alphaTarget = 0

\* C16: for every pointer-down event at most one of a node-drag gesture and a
\* pan/zoom gesture starts: if the pointer resolves to a node the pan/zoom
\* gesture is refused and the drag takes it; wheel zoom is accepted whatever
\* is under the pointer.
C16_DragOrPanNeverBoth ==
  /\ evt.op = "MouseDown" => gesture.kind \in {"drag", "pan"}
  /\ evt.op = "MouseDown" /\ evt.resolved = "node" => gesture.kind = "drag"
  /\ evt.op = "MouseDown" /\ evt.resolved # "node" => gesture.kind = "pan"
  /\ evt.op = "Wheel" => evt.draw

\* The wheel turned over a node while a drag that began on a node goes on.
C16_Witness ==
  /\ evt.op = "Wheel"
  /\ evt.resolved = "node"
  /\ evt.draw
  /\ gesture.kind = "drag"
  /\ gesture.place.kind = "node"

\* C17: after the reset command, following any sequence of drags and
\* simulation ticks, every node's position equals the lane coordinate stored
\* for it by the most recent layout pass and no node is pinned; the stored
\* layout has exactly one entry for every node of the current graph.
C17_ResetRestoresLanes ==
  evt.op = "HandleReset" =>
    /\ \A k \in 1..Len(phys) : phys[k].at = "lane" /\ ~phys[k].pinned
    /\ Len(phys) = Len(graphData.nodes)
    /\ initialPositions = { graphData.nodes[k].id : k \in 1..Len(graphData.nodes) }

\* Reset of a rendered graph in which a node was off its lane or pinned.
C17_Witness ==
  /\ evt.op = "HandleReset"
  /\ evt.moved
  /\ closure.exists
  /\ Len(graphData.nodes) = 2

(***************************************************************************)
(* Properties of the depth groups and of the solver (SpecColumns).         *)
(***************************************************************************)
\* The greatest depth of the nodes.
MaxDepthOf(nodes) ==
  CHOOSE d \in { nodes[k].depth : k \in 1..Len(nodes) } :
    \A k \in 1..Len(nodes) : nodes[k].depth <= d

\* C28: for every non-empty path set accepted by the model builder, every
\* depth from 0 up to the maximum node depth has at least one node, so the
\* solver and the lane layout never read a missing column.
C28_NoEmptyColumn ==
  calc.fn = "columns" /\ calc.grouped /\ Len(calc.nodes) > 0 =>
    /\ \A d \in 0..MaxDepthOf(calc.nodes) : d \in DOMAIN calc.groups
    /\ calc.solved => ~calc.result.threw

\* The ids of a column, as a bag: id -> how often the column holds it.
ColumnBag(column) ==
  [id \in { column[i] : i \in 1..Len(column) } |->
     Cardinality({ i \in 1..Len(column) : column[i] = id })]

\* C29: for every input, the solver returns for each depth a permutation of
\* that depth's input identities: no identity is added, dropped, duplicated
\* or moved to another column, for any number of sweeps.
C29_SolverPermutesColumns ==
  calc.fn = "columns" /\ calc.solved =>
    /\ ~calc.result.threw
    /\ DOMAIN calc.result.order = DOMAIN calc.groups
    /\ \A d \in DOMAIN calc.groups :
         ColumnBag(calc.result.order[d]) = ColumnBag(calc.groups[d])

\* The median the last bottom-up pass gives the node id of column d: that of
\* the indices of its out-neighbours in column d + 1 of the output (index 0 for
\* an out-neighbour that column does not hold), NaN without out-neighbour.
OutMedian(id, d) ==
  Median(SortedIndices(OutOf(calc.links, id), calc.result.order[d + 1]))

\* The columns when the last bottom-up pass begins.
BeforeLastBottomUp ==
  TopDown(Sweep(calc.groups, calc.sweeps - 1, MaxDepthOf(calc.nodes), calc.links),
          1, MaxDepthOf(calc.nodes), calc.links)

\* C24: in the solver's output, for every depth d below the maximum, column d
\* is in non-decreasing order of the median index of each node's
\* out-neighbours in the output's column d+1, every node without out-neighbour
\* comes after all nodes that have one, and nodes that compare equal keep
\* their previous relative order.
C24_BottomUpOrder ==
  calc.fn = "columns" /\ calc.solved /\ ~calc.result.threw /\ calc.sweeps > 0 =>
    \A d \in 0..(MaxDepthOf(calc.nodes) - 1) :
      LET col == calc.result.order[d]
      IN  \A i, j \in 1..Len(col) :
            i < j =>
              LET mi == OutMedian(col[i], d)
                  mj == OutMedian(col[j], d)
              IN  /\ mi = NaN => mj = NaN
                  /\ mi # NaN /\ mj # NaN => RLeq(mi, mj)
                  /\ mi = mj =>
                       IndexIn(BeforeLastBottomUp[d], col[i])
                         < IndexIn(BeforeLastBottomUp[d], col[j])

\* A column of three below the maximum depth that the last pass reordered: one
\* of its nodes has no out-neighbour and ends last, the others have one.
C24_Witness ==
  /\ calc.fn = "columns"
  /\ calc.solved
  /\ ~calc.result.threw
  /\ calc.sweeps > 0
  /\ \E d \in 0..(MaxDepthOf(calc.nodes) - 1) :
       /\ Len(calc.result.order[d]) = 3
       /\ calc.result.order[d] # calc.groups[d]
       /\ OutMedian(calc.result.order[d][3], d) = NaN
       /\ OutMedian(calc.result.order[d][2], d) # NaN

(***************************************************************************)
(* Properties of the fullscreen and resize handling (Spec).                *)
(***************************************************************************)
\* C26: while the document is in fullscreen, resize-observer notifications
\* never change the viewport dimensions; only the fullscreen-change handler
\* does, setting them to the container's bounds on enter and to (container
\* width, 500) on exit, so the height right after an exit is 500 whatever the
\* container measures.
C26_FullscreenOwnsDimensions ==
  [][ /\ fullscreen /\ evt'.op = "ResizeObserved" =>
           pendDims' = pendDims /\ dimensions' = dimensions
      /\ fullscreen /\ fullscreen' /\ pendDims' # pendDims => pendDims' = << >>
      /\ fullscreen /\ fullscreen' /\ dimensions' # dimensions =>
           pendDims # << >> /\ dimensions' = pendDims[1]
      /\ ~fullscreen /\ fullscreen' =>
           evt'.op = "FullscreenChange" /\ pendDims' \in { << rect >> : rect \in ContainerRects }
      /\ fullscreen /\ ~fullscreen' =>
           /\ evt'.op = "FullscreenChange"
           /\ pendDims' \in { << [width |-> rect.width, height |-> 500] >> :
                                rect \in ContainerRects }
    ]_vars

\* The document left fullscreen while the container measured 1000 x 600: the
\* queued viewport is 1000 x 500.
C26_Witness ==
  /\ evt.op = "FullscreenChange"
  /\ ~fullscreen
  /\ pendDims = << [width |-> 1000, height |-> 500] >>

(***************************************************************************)
(* Properties of the label hit test (SpecLabel).                           *)
(***************************************************************************)
\* C27: the fallback label hit-test is applied to exactly the nodes whose
\* label is drawn by the redraw: every node with a visible label (start/end,
\* all nodes when titles are shown, the hovered node, search-matching nodes)
\* can be resolved by a pointer inside its label box, and no node with a
\* hidden label can.
C27_LabelHitIffLabelDrawn ==
  calc.fn = "label" /\ calc.hit # << >> =>
       (calc.hit[1].found = calc.hit[1].node
          <=> ShouldShowLabel(calc.nodes[calc.hit[1].node], calc.hit[1].node,
                              calc.showAllTitles, calc.activeHoverNode, calc.searchTerm))

(***************************************************************************)
(* The fit-to-view after a change: the view receives results of searches   *)
(* between pages 1 and 7 that are four links apart, and is resized.        *)
(***************************************************************************)
\* Three paths that fan out after the start page, and four through two
\* diamonds: 7 nodes and 8 links each.
RefitPathSets ==
  { << <<1, 2, 5, 6, 7>>, <<1, 3, 5, 6, 7>>, <<1, 4, 5, 6, 7>> >>,
    << <<1, 2, 4, 5, 7>>, <<1, 2, 4, 6, 7>>, <<1, 3, 4, 5, 7>>, <<1, 3, 4, 6, 7>> >>,
    << <<1, 2, 4, 5, 7>> >> }
RefitInfo == [i \in 1..7 |-> << <<"A", "B", "C", "D", "E", "F", "G">>[i] >>]

InitRefit ==
  /\ FreshComponent
  /\ calc = NoCalc
  /\ paths \in RefitPathSets
  /\ pageInfo = RefitInfo
  /\ searchTerm = << >>
  /\ limit = MaxEvents

NextRefit ==
  \/ Mount
  \/ Rerender
  \/ \E np \in RefitPathSets : ReceiveProps(np, RefitInfo)
  \/ \E rect \in ContainerRects : ResizeObserved(rect)
  \/ \E rect \in ContainerRects : FullscreenChange(rect)
  \/ TransitionFrame

SpecRefit == InitRefit /\ [][NextRefit]_vars

(***************************************************************************)
(* The fit-to-view after a change (SpecRefit).                                  *)
(***************************************************************************)
\* The step renders a graph or a viewport that differs in node count, edge
\* count, path count, width or height from what the view showed before it.
ShowsChange ==
  /\ phase' = "mounted"
  /\ Len(graphData'.nodes) > 0
  /\ \/ evt'.rebuilt
          /\ StructuralData(graphData', graphData'.src)
               # StructuralData(graphData, graphData.src)
     \/ dimensions' # dimensions

\* C21: every path-set change that changes the node count, edge count or path
\* count, and every change of viewport width or height, is followed by a
\* fit-to-view computed from the lane layout of the graph and viewport current
\* after the change, and no later rebuild for the same change skips it: the
\* render that shows the changed graph or viewport fits it.
C21_ChangeIsFitted ==
  [][ShowsChange => evt'.fit /\ evt'.used = << graphData'.src >>]_vars

====
